---- MODULE Spec2Model ----
(***************************************************************************)
(* A model of the retrieval-augmented generation pipeline of studygenie    *)
(* (backend/rag_engine.py, backend/validation_notations.py).               *)
(*                                                                         *)
(* Texts are sequences of characters; a character is a one-character       *)
(* string, and a non-ASCII character is written by its code point          *)
(* ("U+00D7" is the multiplication sign).                                  *)
(***************************************************************************)
EXTENDS Integers, Sequences, FiniteSets, TLC

VARIABLES
    v_pc,        \* validate_answer_completeness: "input" | "done"
    v_question,  \* its argument question
    v_answer,    \* its argument answer
    v_result     \* the dict it returned

VARIABLES
    a_pc,        \* search_and_answer_improved, from the first generation on:
                 \* "idle" | "generate" | "regenerate" | "return" | "done"
                 \* | "raised"
    a_question,  \* its argument question
    answer_text, \* its local answer_text
    validation,  \* its local validation
    result,      \* the dict it returned
    llm_calls,   \* the calls of claude_client.messages.create it made
    llm_text,    \* the text of the last response of the language model
    score_log,   \* the completeness scores it printed, in order
    context_notations,   \* its local context_notations
    notation_validation  \* its local notation_validation

VARIABLES
    uploads,     \* the files a call of index_course may be given
    disk,        \* data/users/{user_id}/courses/{course_id}, for every course
    runs,        \* the calls of index_course: their position and locals
    query        \* a call of search_and_answer_improved, up to its sources

VARIABLES
    chunking,    \* a call of create_chunks: its arguments and what it returned
    loop         \* a call of simple_chunk: its arguments and its locals

VARIABLES
    latex,       \* calls of convert_latex_to_unicode: argument and results
    notations    \* calls of extract_math_notations_from_context

VARIABLES
    request,     \* a request to an endpoint of main.py that runs the pipeline
    db           \* the row of a course in the database, and its upload

validate_vars == <<v_pc, v_question, v_answer, v_result>>
answer_vars ==
    <<a_pc, a_question, answer_text, validation, result, llm_calls, llm_text,
      score_log, context_notations, notation_validation>>
index_vars == <<uploads, disk, runs, query>>
chunk_vars == <<chunking, loop>>
notation_vars == <<latex, notations>>
api_vars == <<request, db>>
vars ==
    <<validate_vars, answer_vars, index_vars, chunk_vars, notation_vars,
      api_vars>>

(***************************************************************************)
(* Bounds of the model.                                                    *)
(***************************************************************************)
\* the answers handed to the validator are made of at most this many pieces
MaxPieces == 2
\* a response of the language model is made of at most this many pieces
MaxLLMPieces == 2
\* the calls of index_course made in a behaviour
MaxRuns == 2
\* top_k of a query goes up to this
MaxTopK == 4
\* a text handed to create_chunks is made of at most this many pieces
MaxChunkPieces == 3
\* the texts handed to simple_chunk have at most this many characters, but
\* for the text of 2000 characters
MaxTextLen == 4
\* chunk_size and overlap of simple_chunk go up to this
MaxChunkSize == 3
\* the iterations of the loop of simple_chunk that are followed
MaxIterations == 5

\* the pieces a text given to convert_latex_to_unicode is made of, at most
MaxLatexPieces == 3
\* a context given to extract_math_notations_from_context is made of at most
\* this many pieces
MaxContextPieces == 3

(***************************************************************************)
(* Python's str operations, on sequences of characters.                    *)
(***************************************************************************)
Whitespace == {" ", "\t", "\n", "\r", "\f"}

AsciiUpper ==
    <<"A", "B", "C", "D", "E", "F", "G", "H", "I", "J", "K", "L", "M",
      "N", "O", "P", "Q", "R", "S", "T", "U", "V", "W", "X", "Y", "Z">>

AsciiLower ==
    <<"a", "b", "c", "d", "e", "f", "g", "h", "i", "j", "k", "l", "m",
      "n", "o", "p", "q", "r", "s", "t", "u", "v", "w", "x", "y", "z">>

\* the character class [a-z] of the regular expressions
AsciiLowerSet == {AsciiLower[i] : i \in 1..26}

IsAsciiLower(c) == c \in AsciiLowerSet

\* the lowercase letter of every letter that has another one
LowerOf ==
    [c \in {AsciiUpper[i] : i \in 1..26} \cup {"U+03A9"} |->
        IF c = "U+03A9" THEN "U+03C9"
        ELSE AsciiLower[CHOOSE i \in 1..26 : AsciiUpper[i] = c]]

\* str.lower() on one character
LowerChar(c) == IF c \in DOMAIN LowerOf THEN LowerOf[c] ELSE c

\* str.lower()
lower(s) == [i \in 1..Len(s) |-> LowerChar(s[i])]

\* text s holds text sub at position i
MatchAt(s, i, sub) ==
    /\ i + Len(sub) - 1 <= Len(s)
    /\ \A k \in 1..Len(sub) : s[i + k - 1] = sub[k]

\* `sub in s`
Contains(s, sub) == \E i \in 1..(Len(s) - Len(sub) + 1) : MatchAt(s, i, sub)

\* str.find(sub, i), from 1, and 0 when there is no occurrence
find(s, sub, i) ==
    LET hits == {j \in i..(Len(s) - Len(sub) + 1) : MatchAt(s, j, sub)}
    IN  IF hits = {} THEN 0 ELSE CHOOSE j \in hits : \A k \in hits : j <= k

RECURSIVE ReplaceFrom(_, _, _, _)
ReplaceFrom(s, i, old, new) ==
    LET j == find(s, old, i)
    IN  IF j = 0 THEN SubSeq(s, i, Len(s))
        ELSE SubSeq(s, i, j - 1) \o new
             \o ReplaceFrom(s, j + Len(old), old, new)

\* str.replace(old, new): every non-overlapping occurrence, left to right
replace(s, old, new) == ReplaceFrom(s, 1, old, new)

\* the first position from i on that holds no whitespace
RECURSIVE SkipWhitespace(_, _)
SkipWhitespace(s, i) ==
    IF i <= Len(s) /\ s[i] \in Whitespace THEN SkipWhitespace(s, i + 1) ELSE i

\* the last position up to i that holds no whitespace
RECURSIVE SkipWhitespaceBack(_, _)
SkipWhitespaceBack(s, i) ==
    IF i >= 1 /\ s[i] \in Whitespace THEN SkipWhitespaceBack(s, i - 1) ELSE i

\* str.strip()
strip(s) == SubSeq(s, SkipWhitespace(s, 1), SkipWhitespaceBack(s, Len(s)))

\* str.endswith(tuple of one-character suffixes)
endswith(s, suffixes) == s /= <<>> /\ s[Len(s)] \in suffixes

\* the first position from i on that holds whitespace, or Len(s) + 1
RECURSIVE TokenEnd(_, _)
TokenEnd(s, i) ==
    IF i <= Len(s) /\ s[i] \notin Whitespace THEN TokenEnd(s, i + 1) ELSE i

RECURSIVE SplitFrom(_, _)
SplitFrom(s, i) ==
    LET b == SkipWhitespace(s, i)
        e == TokenEnd(s, b)
    IN  IF b > Len(s) THEN <<>>
        ELSE <<SubSeq(s, b, e - 1)>> \o SplitFrom(s, e)

\* str.split(): the maximal whitespace-free runs, in order
split(s) == SplitFrom(s, 1)

RECURSIVE FindallFrom(_, _)
FindallFrom(s, i) ==
    IF i + 1 > Len(s) THEN <<>>
    ELSE IF IsAsciiLower(s[i]) /\ s[i + 1] = ")"
         THEN <<SubSeq(s, i, i + 1)>> \o FindallFrom(s, i + 2)
         ELSE FindallFrom(s, i + 1)

\* re.findall(r'[a-z]\)', s): the matches, scanning left to right
findall_subquestions(s) == FindallFrom(s, 1)

\* str.split(sep): the texts between the occurrences of sep
RECURSIVE SplitOnFrom(_, _, _)
SplitOnFrom(s, i, sep) ==
    LET j == find(s, sep, i)
    IN  IF j = 0 THEN <<SubSeq(s, i, Len(s))>>
        ELSE <<SubSeq(s, i, j - 1)>> \o SplitOnFrom(s, j + Len(sep), sep)

SplitOn(s, sep) == SplitOnFrom(s, 1, sep)

\* str.split(sep, 1): the text cut at the first occurrence of sep
SplitOnce(s, sep) ==
    LET j == find(s, sep, 1)
    IN  IF j = 0 THEN <<s>>
        ELSE <<SubSeq(s, 1, j - 1), SubSeq(s, j + Len(sep), Len(s))>>

\* re.sub of a run of more than keep characters c by keep of them
RECURSIVE CollapseFrom(_, _, _, _)
CollapseFrom(s, i, c, keep) ==
    LET dropped == {j \in i..Len(s) :
                       s[j] = c /\ j > keep /\ \A k \in 1..keep : s[j - k] = c}
    IN  IF dropped = {} THEN SubSeq(s, i, Len(s))
        ELSE LET j == CHOOSE j \in dropped : \A k \in dropped : j <= k
             IN  SubSeq(s, i, j - 1) \o CollapseFrom(s, j + 1, c, keep)

Max(a, b) == IF a >= b THEN a ELSE b

\* the concatenation of a sequence of texts
RECURSIVE Concat(_)
Concat(ss) == IF ss = <<>> THEN <<>> ELSE Head(ss) \o Concat(Tail(ss))

\* the sequences of at most n elements of S
SeqUpTo(S, n) == UNION {[1..k -> S] : k \in 0..n}

(***************************************************************************)
(* The variables of a function that is not called.                         *)
(***************************************************************************)
NoResult == [is_complete |-> FALSE, score |-> 0, issues |-> <<>>]

NoFile == [exists |-> FALSE, run |-> 0, data |-> <<>>]

NoUpload == [ext |-> "", units |-> <<>>, readable |-> FALSE, fail_at |-> 0]

NoRun ==
    [pc |-> "idle", course |-> "", file |-> NoUpload, file_ext |-> "",
     page_count |-> 0, chunks |-> <<>>, failed |-> {}, embeddings |-> <<>>]

NoNumber == [num |-> 0, den |-> 1]

NoQuery ==
    [pc |-> "idle", course |-> "",
     metadata |-> NoFile, index |-> NoFile, chunks |-> NoFile,
     top_k |-> 0, question_embedding |-> [dim |-> 0, head |-> <<>>],
     distances |-> <<>>, indices |-> <<>>, relevant_chunks |-> <<>>,
     context_text |-> <<>>, context |-> <<>>,
     confidence |-> NoNumber, sources |-> <<>>]

IndexIdle ==
    /\ uploads = {}
    /\ disk = [c \in {} |-> NoFile]
    /\ runs = <<>>
    /\ query = NoQuery

NoNotationSet == [variables |-> <<>>, formulas |-> <<>>, units |-> <<>>]

NoNotationResult ==
    [score |-> 0, is_complete |-> FALSE, issues_count |-> 0, issues |-> <<>>]

NoAnswer ==
    [question |-> <<>>, answer |-> <<>>, validation |-> NoResult,
     notation_validation |-> NoNotationResult]

AnswerIdle ==
    /\ a_pc = "idle"
    /\ a_question = <<>>
    /\ answer_text = <<>>
    /\ validation = NoResult
    /\ result = NoAnswer
    /\ llm_calls = 0
    /\ llm_text = <<>>
    /\ score_log = <<>>
    /\ context_notations = NoNotationSet
    /\ notation_validation = NoNotationResult

ValidateIdle ==
    /\ v_pc = "done"
    /\ v_question = <<>>
    /\ v_answer = <<>>
    /\ v_result = NoResult

NoChunking ==
    [pc |-> "idle", text |-> <<>>, chunk_size |-> 0, overlap |-> 0,
     chunks |-> <<>>]

NoLoop ==
    [pc |-> "idle", text |-> <<>>, chunk_size |-> 0, overlap |-> 0,
     start |-> 0, chunks |-> <<>>]

ChunkIdle ==
    /\ chunking = NoChunking
    /\ loop = NoLoop

NoLatex == [pc |-> "idle", text |-> <<>>, once |-> <<>>, twice |-> <<>>]

NoNotations == [pc |-> "idle", context |-> <<>>, first |-> <<>>, second |-> <<>>]

NotationIdle ==
    /\ latex = NoLatex
    /\ notations = NoNotations

NoRequest ==
    [pc |-> "idle", endpoint |-> "", subscription_type |-> "",
     admin |-> FALSE, user_plan |-> "", top_k |-> 0, model |-> ""]

\* the row of a course as it is created: indexed is False, indexing_status
\* is "pending"; pc is the position of upload_files and calls the number of
\* calls of index_course made when upload_files started its indexing
NoCourse ==
    [pc |-> "idle", indexed |-> FALSE, indexing_status |-> "pending",
     calls |-> 0]

ApiIdle ==
    /\ request = NoRequest
    /\ db = NoCourse

(***************************************************************************)
(* validate_answer_completeness                                            *)
(***************************************************************************)
\* "n'est pas dans le cours"
RefusalPhrase ==
    <<"n", "'", "e", "s", "t", " ", "p", "a", "s", " ", "d", "a", "n", "s",
      " ", "l", "e", " ", "c", "o", "u", "r", "s">>

SentenceEnds == {".", "!", "?", ":", ")"}

SubquestionPenalty == 30
IncompletePenalty == 20
TooShortPenalty == 10
MinAnswerTokens == 20
CompleteScore == 70

\* a mutation: the guard on several markers is dropped
SubquestionsChecked_AnyCount(question) ==
    findall_subquestions(lower(question))

\* the markers whose presence in the answer is checked: all of them when the
\* question holds more than one, none otherwise
SubquestionsChecked(question) ==
    LET subquestions == findall_subquestions(lower(question))
    IN  IF subquestions /= <<>> /\ Len(subquestions) > 1
        THEN subquestions ELSE <<>>

\* a mutation: only the first absent marker is reported
MissingSubquestions_FirstOnly(question, answer) ==
    LET missing == SelectSeq(SubquestionsChecked(question),
                             LAMBDA sub : ~Contains(lower(answer), sub))
    IN  IF missing = <<>> THEN <<>> ELSE <<missing[1]>>

\* the markers of the question, one per occurrence, absent from the answer
MissingSubquestions(question, answer) ==
    SelectSeq(SubquestionsChecked(question),
              LAMBDA sub : ~Contains(lower(answer), sub))

\* the answer does not end a sentence
IncompleteSentence(answer) == ~endswith(strip(answer), SentenceEnds)

\* a mutation: the refusal phrase no longer exempts a short answer
TooShort_NoExemption(answer) == Len(split(answer)) < MinAnswerTokens

\* the answer is short and is not the refusal
TooShort(answer) ==
    Len(split(answer)) < MinAnswerTokens /\ ~Contains(answer, RefusalPhrase)

\* "Sous-question {sub} non traitee", with its e acute
MissingMessage(sub) ==
    <<"S", "o", "u", "s", "-", "q", "u", "e", "s", "t", "i", "o", "n", " ">>
    \o sub
    \o <<" ", "n", "o", "n", " ", "t", "r", "a", "i", "t", "U+00E9", "e">>

\* "Reponse se termine abruptement", with its e acute
IncompleteMessage ==
    <<"R", "U+00E9", "p", "o", "n", "s", "e", " ", "s", "e", " ", "t", "e",
      "r", "m", "i", "n", "e", " ", "a", "b", "r", "u", "p", "t", "e", "m",
      "e", "n", "t">>

\* "Reponse trop courte", with its e acute
TooShortMessage ==
    <<"R", "U+00E9", "p", "o", "n", "s", "e", " ", "t", "r", "o", "p", " ",
      "c", "o", "u", "r", "t", "e">>

Issue(type, message) == [type |-> type, message |-> message]

\* the list issues, in the order the checks append to it
ValidationIssues(question, answer) ==
    LET missing == MissingSubquestions(question, answer)
    IN  [i \in 1..Len(missing) |->
            Issue("missing_subquestion", MissingMessage(missing[i]))]
        \o (IF IncompleteSentence(answer)
            THEN <<Issue("incomplete_sentence", IncompleteMessage)>> ELSE <<>>)
        \o (IF TooShort(answer)
            THEN <<Issue("too_short", TooShortMessage)>> ELSE <<>>)

\* the score before the clamp
ValidationScore(question, answer) ==
    100 - SubquestionPenalty * Len(MissingSubquestions(question, answer))
        - (IF IncompleteSentence(answer) THEN IncompletePenalty ELSE 0)
        - (IF TooShort(answer) THEN TooShortPenalty ELSE 0)

\* a mutation: the score is returned without the clamp
ValidationResult_NoClamp(issues, score) ==
    [is_complete |-> score >= CompleteScore, score |-> score, issues |-> issues]

\* the dict returned
ValidationResult(issues, score) ==
    [is_complete |-> score >= CompleteScore,
     score       |-> Max(0, score),
     issues      |-> issues]

validate_answer_completeness(question, answer) ==
    ValidationResult(ValidationIssues(question, answer),
                     ValidationScore(question, answer))

(***************************************************************************)
(* The questions and answers the validator is applied to.                  *)
(***************************************************************************)
\* "Quoi ?"
QNone == <<"Q", "u", "o", "i", " ", "?">>
\* "Voir a)"
QOne == <<"V", "o", "i", "r", " ", "a", ")">>
\* "Donne a) et b)"
QTwo ==
    <<"D", "o", "n", "n", "e", " ", "a", ")", " ", "e", "t", " ", "b", ")">>
\* "A) puis B)"
QUpper == <<"A", ")", " ", "p", "u", "i", "s", " ", "B", ")">>
\* "a) a)"
QTwice == <<"a", ")", " ", "a", ")">>
\* "a) b) c) d)"
QFour == <<"a", ")", " ", "b", ")", " ", "c", ")", " ", "d", ")">>

Questions == {QNone, QOne, QTwo, QUpper, QTwice, QFour}

\* nineteen tokens, "m m ... m "
Words19 == [i \in 1..38 |-> IF i % 2 = 1 THEN "m" ELSE " "]

\* the sentence the French system prompt gives for information that is not
\* in the context: "Aucune donnée disponible pour ce sujet actuellement."
NoDataFrench ==
    <<"A", "u", "c", "u", "n", "e", " ", "d", "o", "n", "n", "U+00E9", "e",
      " ", "d", "i", "s", "p", "o", "n", "i", "b", "l", "e", " ", "p", "o",
      "u", "r", " ", "c", "e", " ", "s", "u", "j", "e", "t", " ", "a", "c",
      "t", "u", "e", "l", "l", "e", "m", "e", "n", "t", ".">>

\* the one of the English system prompt
NoDataEnglish ==
    <<"N", "o", " ", "d", "a", "t", "a", " ", "a", "v", "a", "i", "l", "a",
      "b", "l", "e", " ", "f", "o", "r", " ", "t", "h", "i", "s", " ", "t",
      "o", "p", "i", "c", " ", "c", "u", "r", "r", "e", "n", "t", "l", "y",
      ".">>

AnswerPieces ==
    { NoDataFrench,
      NoDataEnglish,
      <<"a", ")", " ">>,
      <<"b", ")", " ">>,
      <<"B", ")", "\n">>,
      <<"R", "e", "p">>,
      <<".">>,
      RefusalPhrase,
      Words19 }

Answers == {Concat(ps) : ps \in SeqUpTo(AnswerPieces, MaxPieces)}

PipelineQuestions == {QNone, QTwo, QFour}

\* the nine LaTeX commands of the table, one after the other
AllLatex ==
    <<"\\", "t", "i", "m", "e", "s", "\\", "c", "d", "o", "t", "\\", "l",
      "e", "\\", "g", "e", "\\", "n", "e", "q", "\\", "a", "p", "p", "r",
      "o", "x", "\\", "s", "q", "r", "t", "\\", "p", "i", "\\", "O", "m",
      "e", "g", "a">>

LLMPieces ==
    { <<"a", ")", " ">>,
      <<"b", ")", " ", "o", "k", ".">>,
      <<"x", " ", "*", " ", "y", "*", "z">>,
      <<"U">>,
      AllLatex }

\* what the language model may answer
LLMAnswers == {Concat(ps) : ps \in SeqUpTo(LLMPieces, MaxLLMPieces)}

(***************************************************************************)
(* convert_latex_to_unicode and the post-processing of an answer           *)
(***************************************************************************)
\* the dict replacements, in its order: <<latex, uni>>
replacements ==
    <<
      <<<<"\\", "t", "i", "m", "e", "s">>,
        <<"U+00D7">>>>,
      <<<<"\\", "c", "d", "o", "t">>,
        <<"U+00B7">>>>,
      <<<<"\\", "l", "e">>,
        <<"U+2264">>>>,
      <<<<"\\", "g", "e">>,
        <<"U+2265">>>>,
      <<<<"\\", "n", "e", "q">>,
        <<"U+2260">>>>,
      <<<<"\\", "a", "p", "p", "r", "o", "x">>,
        <<"U+2248">>>>,
      <<<<"\\", "s", "q", "r", "t">>,
        <<"U+221A">>>>,
      <<<<"\\", "p", "i">>,
        <<"U+03C0">>>>,
      <<<<"\\", "O", "m", "e", "g", "a">>,
        <<"U+03A9">>>>
    >>

\* a mutation: only the first occurrence of every command is replaced
RECURSIVE ApplyReplacements_FirstOnly(_, _)
ApplyReplacements_FirstOnly(text, table) ==
    LET j == find(text, table[1][1], 1)
        replaced ==
            IF j = 0 THEN text
            ELSE SubSeq(text, 1, j - 1) \o table[1][2]
                 \o SubSeq(text, j + Len(table[1][1]), Len(text))
    IN  IF table = <<>> THEN text
        ELSE ApplyReplacements_FirstOnly(replaced, Tail(table))

RECURSIVE ApplyReplacements(_, _)
ApplyReplacements(text, table) ==
    IF table = <<>> THEN text
    ELSE ApplyReplacements(replace(text, table[1][1], table[1][2]), Tail(table))

convert_latex_to_unicode(text) ==
    IF text = <<>> THEN text ELSE ApplyReplacements(text, replacements)

\* the post-processing of the first answer: the LaTeX commands, then " * ",
\* then every remaining "*", become their Unicode signs
PostProcess(text) ==
    replace(replace(convert_latex_to_unicode(text),
                    <<" ", "*", " ">>, <<" ", "U+00B7", " ">>),
            <<"*">>, <<"U+00B7">>)

(***************************************************************************)
(* convert_latex_to_unicode applied to a text, and again to its result.    *)
(***************************************************************************)
\* the commands of the table
LatexCommands == {replacements[i][1] : i \in DOMAIN replacements}

\* what the texts are made of: the nine commands, and pieces that make a
\* command when they come together
LatexPieces ==
    LatexCommands
    \cup {<<"\\">>, <<"\\", "t">>, <<"i", "m", "e", "s">>, <<"q">>, <<"x">>}

LatexTexts == {Concat(ps) : ps \in SeqUpTo(LatexPieces, MaxLatexPieces)}

InitLatex ==
    /\ latex \in {[NoLatex EXCEPT !.pc = "input", !.text = t] :
                     t \in LatexTexts}
    /\ notations = NoNotations
    /\ ValidateIdle
    /\ AnswerIdle
    /\ IndexIdle
    /\ ChunkIdle
    /\ ApiIdle

ConvertOnce ==
    /\ latex.pc = "input"
    /\ latex' = [latex EXCEPT !.pc = "once",
                              !.once = convert_latex_to_unicode(latex.text)]
    /\ UNCHANGED notations
    /\ UNCHANGED <<validate_vars, answer_vars, index_vars, chunk_vars>>
    /\ UNCHANGED api_vars

ConvertTwice ==
    /\ latex.pc = "once"
    /\ latex' = [latex EXCEPT !.pc = "twice",
                              !.twice = convert_latex_to_unicode(latex.once)]
    /\ UNCHANGED notations
    /\ UNCHANGED <<validate_vars, answer_vars, index_vars, chunk_vars>>
    /\ UNCHANGED api_vars

NextLatex == ConvertOnce \/ ConvertTwice

SpecLatex == InitLatex /\ [][NextLatex]_vars

\* C23: no command of the table is left in the result of one application,
\* and a second application returns the result of the first
C23_Idempotent ==
    /\ latex.pc \in {"once", "twice"}
       => \A command \in LatexCommands : ~Contains(latex.once, command)
    /\ latex.pc = "twice" => latex.twice = latex.once

\* C23: a text in which a command was replaced and a backslash is left, and
\* which the second application returns as the first did
C23_Witness ==
    /\ latex.pc = "twice"
    /\ \E command \in LatexCommands : Contains(latex.text, command)
    /\ Len(latex.once) < Len(latex.text)
    /\ Contains(latex.once, <<"\\">>)
    /\ latex.twice = latex.once

(***************************************************************************)
(* search_and_answer_improved, from the first generation to the return     *)
(***************************************************************************)
RetryScore == 50

\* "Réponse vide"
EmptyResponseIssue ==
    <<"R", "U+00E9", "p", "o", "n", "s", "e", " ", "v", "i", "d", "e">>

\* "Formule attendue absente de la réponse"
MissingFormulaIssue ==
    <<"F", "o", "r", "m", "u", "l", "e", " ", "a", "t", "t", "e", "n", "d",
      "u", "e", " ", "a", "b", "s", "e", "n", "t", "e", " ", "d", "e", " ",
      "l", "a", " ", "r", "U+00E9", "p", "o", "n", "s", "e">>

\* "Formule modifiée ou incomplète : "
ModifiedFormulaIssue ==
    <<"F", "o", "r", "m", "u", "l", "e", " ", "m", "o", "d", "i", "f", "i",
      "U+00E9", "e", " ", "o", "u", " ", "i", "n", "c", "o", "m", "p", "l",
      "U+00E8", "t", "e", " ", ":", " ">>

MissingFormulaPenalty == 20
ModifiedFormulaPenalty == 15
FormulaCheckLength == 100
NotationCompleteScore == 50

\* formula.split("=")[0].strip()
LeftHandSide(formula) == strip(SplitOn(formula, <<"=">>)[1])

\* the formulas whose left-hand side is in the response while the formula
\* is not, spaces apart
ModifiedFormulas(response, formulas) ==
    SelectSeq(formulas,
              LAMBDA f :
                  /\ Contains(response, LeftHandSide(f))
                  /\ ~Contains(response, f)
                  /\ ~Contains(replace(response, <<" ">>, <<>>),
                               replace(f, <<" ">>, <<>>)))

validate_notation_consistency(response, notation_set) ==
    LET formulas == notation_set.formulas
        missing ==
            IF /\ formulas /= <<>>
               /\ Len(response) > FormulaCheckLength
               /\ \A i \in 1..Len(formulas) :
                    ~Contains(response, LeftHandSide(formulas[i]))
            THEN <<MissingFormulaIssue>> ELSE <<>>
        modified == ModifiedFormulas(response, formulas)
        issues == missing
                  \o [i \in 1..Len(modified) |->
                         ModifiedFormulaIssue \o modified[i]]
        score == 100 - MissingFormulaPenalty * Len(missing)
                 - ModifiedFormulaPenalty * Len(modified)
    IN  IF response = <<>>
        THEN [score |-> 0, is_complete |-> FALSE, issues_count |-> 1,
              issues |-> <<EmptyResponseIssue>>]
        ELSE [score |-> score, is_complete |-> score >= NotationCompleteScore,
              issues_count |-> Len(issues), issues |-> issues]

\* context_notations of a course without formulas and of a course with the
\* formulas "U = R" and "Ab = I"
ContextNotations ==
    { NoNotationSet,
      [variables |-> << <<"U">>, <<"R">>, <<"I">> >>,
       formulas |-> << <<"U", " ", "=", " ", "R">>,
                       <<"A", "b", " ", "=", " ", "I">> >>,
       units |-> <<>>] }

\* a mutation: every incomplete answer is regenerated
NeedsRegeneration_Incomplete(v) == ~v.is_complete

\* the condition of the regeneration
NeedsRegeneration(v) == ~v.is_complete /\ v.score < RetryScore

\* a mutation: a regenerated answer that scores low is regenerated again
AfterRegeneration_Again(v) ==
    IF NeedsRegeneration(v) THEN "regenerate" ELSE "return"

\* after the regeneration the function goes on to its return
AfterRegeneration(v) == "return"

\* the validation of the regenerated answer replaces the first one
Revalidate(old, q, text) == validate_answer_completeness(q, text)

\* the first call of the language model, the post-processing and the
\* validation of its answer
Generate ==
    /\ a_pc = "generate"
    /\ llm_calls' = llm_calls + 1
    /\ \/ \E text \in LLMAnswers :
           \E processed \in {PostProcess(text)} :
           \E v \in {validate_answer_completeness(a_question, processed)} :
                 /\ llm_text' = text
                 /\ answer_text' = processed
                 /\ validation' = v
                 /\ notation_validation' =
                        validate_notation_consistency(processed,
                                                      context_notations)
                 /\ score_log' = Append(score_log, v.score)
                 /\ a_pc' = IF NeedsRegeneration(v)
                            THEN "regenerate" ELSE "return"
       \/ /\ a_pc' = "raised"
          /\ UNCHANGED <<llm_text, answer_text, validation, score_log>>
          /\ UNCHANGED notation_validation
    /\ UNCHANGED <<a_question, result, context_notations>>
    /\ UNCHANGED <<validate_vars, index_vars, chunk_vars>>
    /\ UNCHANGED <<notation_vars, api_vars>>

\* a mutation: a failure of the second call gives an empty answer
Regenerate_SwallowFailure ==
    /\ a_pc = "regenerate"
    /\ llm_calls' = llm_calls + 1
    /\ \/ \E text \in LLMAnswers :
           \E v \in {Revalidate(validation, a_question, text)} :
                 /\ llm_text' = text
                 /\ answer_text' = text
                 /\ validation' = v
                 /\ score_log' = Append(score_log, v.score)
                 /\ a_pc' = AfterRegeneration(v)
       \/ /\ a_pc' = "return"
          /\ answer_text' = <<>>
          /\ UNCHANGED <<llm_text, validation, score_log>>
    /\ UNCHANGED <<a_question, result>>
    /\ UNCHANGED <<context_notations, notation_validation>>
    /\ UNCHANGED <<validate_vars, index_vars, chunk_vars>>
    /\ UNCHANGED <<notation_vars, api_vars>>

\* the second call of the language model and the validation of its answer
Regenerate ==
    /\ a_pc = "regenerate"
    /\ llm_calls' = llm_calls + 1
    /\ \/ \E text \in LLMAnswers :
           \E v \in {Revalidate(validation, a_question, text)} :
                 /\ llm_text' = text
                 /\ answer_text' = text
                 /\ validation' = v
                 /\ score_log' = Append(score_log, v.score)
                 /\ a_pc' = AfterRegeneration(v)
       \/ /\ a_pc' = "raised"
          /\ UNCHANGED <<llm_text, answer_text, validation, score_log>>
    /\ UNCHANGED <<a_question, result>>
    /\ UNCHANGED <<context_notations, notation_validation>>
    /\ UNCHANGED <<validate_vars, index_vars, chunk_vars>>
    /\ UNCHANGED <<notation_vars, api_vars>>

\* the dict returned
Return ==
    /\ a_pc = "return"
    /\ result' = [question   |-> a_question,
                  answer     |-> answer_text,
                  validation |-> validation,
                  notation_validation |-> notation_validation]
    /\ a_pc' = "done"
    /\ UNCHANGED <<a_question, answer_text, validation, llm_calls, llm_text,
                   score_log, context_notations, notation_validation>>
    /\ UNCHANGED <<validate_vars, index_vars, chunk_vars>>
    /\ UNCHANGED <<notation_vars, api_vars>>

InitAnswer ==
    /\ a_pc = "generate"
    /\ a_question \in PipelineQuestions
    /\ answer_text = <<>>
    /\ validation = NoResult
    /\ result = NoAnswer
    /\ llm_calls = 0
    /\ llm_text = <<>>
    /\ score_log = <<>>
    /\ context_notations \in ContextNotations
    /\ notation_validation = NoNotationResult
    /\ ValidateIdle
    /\ IndexIdle
    /\ ChunkIdle
    /\ NotationIdle
    /\ ApiIdle

NextAnswer == Generate \/ Regenerate \/ Return

SpecAnswer == InitAnswer /\ [][NextAnswer]_vars

(***************************************************************************)
(* clean_text, create_chunks, simple_chunk                                 *)
(***************************************************************************)
CHUNK_SIZE == 800
CHUNK_OVERLAP == 200

clean_text(text) ==
    strip(CollapseFrom(
            CollapseFrom(
              replace(replace(text, <<"U+0000">>, <<>>),
                      <<"\r", "\n">>, <<"\n">>),
              1, " ", 1),
            1, "\n", 2))

\* the chunks of simple_chunk from position start (counted from 0) on;
\* chunk_size > overlap is expected
RECURSIVE SimpleChunkFrom(_, _, _, _)
SimpleChunkFrom(text, start, chunk_size, overlap) ==
    IF start < Len(text)
    THEN <<SubSeq(text, start + 1,
                  IF start + chunk_size < Len(text)
                  THEN start + chunk_size ELSE Len(text))>>
         \o SimpleChunkFrom(text, start + (chunk_size - overlap),
                            chunk_size, overlap)
    ELSE <<>>

simple_chunk(text, chunk_size, overlap) ==
    SimpleChunkFrom(text, 0, chunk_size, overlap)

\* a chunk without the key 'page' or 'slide' has 0 there
NoUnit == 0

Chunk(id, content, page, slide) ==
    [id |-> id, content |-> content, page |-> page, slide |-> slide,
     length |-> Len(content)]

\* the text of a page or slide: what follows its "N ---" header, stripped
UnitText(unit_content) ==
    LET parts == SplitOnce(unit_content, <<"-", "-", "-">>)
    IN  IF Len(parts) = 2 THEN strip(parts[2]) ELSE strip(unit_content)

\* a mutation: the ids start again at 0 on every page
RECURSIVE PageChunksFrom_RestartIds(_, _, _, _, _)
PageChunksFrom_RestartIds(pages, page_num, chunk_id, chunk_size, overlap) ==
    IF page_num + 1 > Len(pages) THEN <<>>
    ELSE LET page_text == UnitText(pages[page_num + 1])
             contents == IF Len(page_text) <= chunk_size
                         THEN <<page_text>>
                         ELSE simple_chunk(page_text, chunk_size, overlap)
         IN  [i \in 1..Len(contents) |->
                 Chunk(i - 1, contents[i], page_num, NoUnit)]
             \o PageChunksFrom_RestartIds(pages, page_num + 1, 0,
                                          chunk_size, overlap)

\* the chunks of the pages from page_num on, numbered from chunk_id
RECURSIVE PageChunksFrom(_, _, _, _, _)
PageChunksFrom(pages, page_num, chunk_id, chunk_size, overlap) ==
    IF page_num + 1 > Len(pages) THEN <<>>
    ELSE LET page_text == UnitText(pages[page_num + 1])
             contents == IF Len(page_text) <= chunk_size
                         THEN <<page_text>>
                         ELSE simple_chunk(page_text, chunk_size, overlap)
         IN  [i \in 1..Len(contents) |->
                 Chunk(chunk_id + i - 1, contents[i], page_num, NoUnit)]
             \o PageChunksFrom(pages, page_num + 1, chunk_id + Len(contents),
                               chunk_size, overlap)

\* a mutation: the text is cut as a whole and every chunk is given page 1
create_chunks_AcrossPages(text, chunk_size, overlap) ==
    LET simple_chunks == simple_chunk(text, chunk_size, overlap)
    IN  [i \in 1..Len(simple_chunks) |->
            Chunk(i - 1, simple_chunks[i], 1, NoUnit)]

create_chunks(text, chunk_size, overlap) ==
    LET pages == SplitOn(text, <<"-", "-", "-", " ", "P", "a", "g", "e", " ">>)
        slides ==
            SplitOn(text, <<"-", "-", "-", " ", "S", "l", "i", "d", "e", " ">>)
        simple_chunks == simple_chunk(text, chunk_size, overlap)
    IN  IF Len(pages) > 1
        THEN PageChunksFrom(pages, 1, 0, chunk_size, overlap)
        ELSE IF Len(slides) > 1
        THEN [n \in 1..(Len(slides) - 1) |->
                 Chunk(n - 1, UnitText(slides[n + 1]), NoUnit, n)]
        ELSE [i \in 1..Len(simple_chunks) |->
                 Chunk(i - 1, simple_chunks[i], NoUnit, NoUnit)]

(***************************************************************************)
(* get_embedding.  A vector of the embedding model is written by its       *)
(* dimension and its first two coordinates; the other ones are 0.          *)
(***************************************************************************)
EmbeddingDim == 3072

Vector(x, y) == [dim |-> EmbeddingDim, head |-> <<x, y>>]

\* [0.0] * 3072
ZeroVector == Vector(0, 0)

\* None
NoEmbedding == [dim |-> 0, head |-> <<>>]

CharCode(c) ==
    IF c \in AsciiLowerSet THEN CHOOSE i \in 1..26 : AsciiLower[i] = c ELSE 27

RECURSIVE WeightedSumBetween(_, _, _)
WeightedSumBetween(text, lo, hi) ==
    IF lo > hi THEN 0
    ELSE IF lo = hi THEN lo * CharCode(text[lo])
    ELSE LET mid == (lo + hi) \div 2
         IN  WeightedSumBetween(text, lo, mid)
             + WeightedSumBetween(text, mid + 1, hi)

WeightedSum(text, i) == WeightedSumBetween(text, i, Len(text))

\* what the embedding service answers for a text: a vector that is not zero
\* and tells the short texts of the model apart
EmbeddingOf(text) == Vector((Len(text) % 5) + 1, WeightedSum(text, 1) % 7)

\* get_embedding: the vector of the service, None when the call raised
get_embedding(text, call_ok) ==
    IF call_ok THEN EmbeddingOf(text) ELSE NoEmbedding

(***************************************************************************)
(* The extractors.  A file is written by its extension, its units (the     *)
(* text of every page, slide or paragraph, or its one content), whether it *)
(* can be opened, and the unit at which reading it raises (0: none).       *)
(***************************************************************************)
Digits == <<"0", "1", "2", "3", "4", "5", "6", "7", "8", "9">>

\* str(n) of a natural number
RECURSIVE IntToText(_)
IntToText(n) ==
    IF n < 10 THEN <<Digits[n + 1]>>
    ELSE IntToText(n \div 10) \o <<Digits[(n % 10) + 1]>>

\* sep.join(texts)
RECURSIVE JoinFrom(_, _, _)
JoinFrom(sep, texts, i) ==
    IF i > Len(texts) THEN <<>>
    ELSE IF i = Len(texts) THEN texts[i]
    ELSE texts[i] \o sep \o JoinFrom(sep, texts, i + 1)

join(sep, texts) == JoinFrom(sep, texts, 1)

UploadedFile(ext, units, readable, fail_at) ==
    [ext |-> ext, units |-> units, readable |-> readable, fail_at |-> fail_at]

Extracted(text, page_count) == [text |-> text, page_count |-> page_count]

\* f"\n--- Page {page_num + 1} ---\n"
PageHeader(n) ==
    <<"\n", "-", "-", "-", " ", "P", "a", "g", "e", " ">>
    \o IntToText(n) \o <<" ", "-", "-", "-", "\n">>

\* f"\n--- Slide {slide_num + 1} ---\n"
SlideHeader(n) ==
    <<"\n", "-", "-", "-", " ", "S", "l", "i", "d", "e", " ">>
    \o IntToText(n) \o <<" ", "-", "-", "-", "\n">>

ScannedPage ==
    <<"[", "P", "a", "g", "e", " ", "s", "c", "a", "n", "n", "U+00E9", "e",
      " ", "-", " ", "O", "C", "R", " ", "U+00E0", " ", "i", "m", "p", "l",
      "U+00E9", "m", "e", "n", "t", "e", "r", "]">>

OcrUnavailable ==
    <<"[", "O", "C", "R", " ", "n", "o", "n", " ", "d", "i", "s", "p", "o",
      "n", "i", "b", "l", "e", " ", "-", " ", "I", "n", "s", "t", "a", "l",
      "l", "e", "r", " ", "T", "e", "s", "s", "e", "r", "a", "c", "t", "]">>

\* any exception empties the text; page_count is known once the file is open
extract_text_from_pdf(f, tesseract) ==
    IF ~f.readable THEN Extracted(<<>>, 0)
    ELSE IF f.fail_at /= 0 THEN Extracted(<<>>, Len(f.units))
    ELSE Extracted(
             Concat([n \in 1..Len(f.units) |->
                       PageHeader(n)
                       \o (IF strip(f.units[n]) = <<>> /\ tesseract
                           THEN ScannedPage ELSE f.units[n])]),
             Len(f.units))

\* an exception ends the loop and keeps the text gathered so far: the slides
\* before the failing one and the header of the failing one
extract_text_from_pptx(f) ==
    IF ~f.readable THEN Extracted(<<>>, 0)
    ELSE LET last == IF f.fail_at = 0 THEN Len(f.units) ELSE f.fail_at
         IN  Extracted(
                 Concat([n \in 1..last |->
                           SlideHeader(n)
                           \o (IF n = f.fail_at \/ strip(f.units[n]) = <<>>
                               THEN <<>> ELSE f.units[n] \o <<"\n">>)]),
                 Len(f.units))

extract_text_from_docx(f) ==
    IF ~f.readable \/ f.fail_at /= 0 THEN <<>>
    ELSE join(<<"\n">>,
              SelectSeq(f.units, LAMBDA para : strip(para) /= <<>>))

extract_text_from_txt(f) ==
    IF ~f.readable \/ f.fail_at /= 0 THEN <<>> ELSE f.units[1]

extract_text_from_image(f, tesseract) ==
    IF ~tesseract THEN OcrUnavailable
    ELSE IF ~f.readable \/ f.fail_at /= 0 THEN <<>>
    ELSE f.units[1]

(***************************************************************************)
(* index_course                                                            *)
(***************************************************************************)
Runs == 1..MaxRuns

SupportedExt == {".pdf", ".pptx", ".docx", ".txt", ".md", ".jpg", ".jpeg", ".png"}

\* the text and the page count index_course extracts from a file of a
\* supported extension
ExtractText(f, tesseract) ==
    CASE f.ext = ".pdf"  -> extract_text_from_pdf(f, tesseract)
      [] f.ext = ".pptx" -> extract_text_from_pptx(f)
      [] f.ext = ".docx" -> Extracted(extract_text_from_docx(f), 1)
      [] f.ext \in {".txt", ".md"} -> Extracted(extract_text_from_txt(f), 1)
      [] OTHER -> Extracted(extract_text_from_image(f, tesseract), 1)

PdfFile == UploadedFile(".pdf", <<<<"a", "b">>, <<"c", "d">>>>, TRUE, 0)
TxtFile == UploadedFile(".txt", <<<<"x", "y", "z">>>>, TRUE, 0)
BlankFile == UploadedFile(".txt", <<<<" ", "\n">>>>, TRUE, 0)
ExeFile == UploadedFile(".exe", <<>>, TRUE, 0)

\* the files given to the calls of index_course that run side by side
Files == {PdfFile, TxtFile, BlankFile, ExeFile}

\* a mutation: a chunk whose embedding call failed gets no vector
EmbedChunks_SkipFailed(chunks, failed) ==
    LET ok == SelectSeq([i \in 1..Len(chunks) |-> i], LAMBDA i : i \notin failed)
    IN  [n \in 1..Len(ok) |-> get_embedding(chunks[ok[n]].content, TRUE)]

\* the list embeddings: for every chunk, in order, its embedding or, when
\* the call failed (for the positions of failed), the zero vector
EmbedChunks(chunks, failed) ==
    [i \in 1..Len(chunks) |->
        LET embedding == get_embedding(chunks[i].content, i \notin failed)
        IN  IF embedding /= NoEmbedding THEN embedding ELSE ZeroVector]

\* the embedding calls of a run that may fail: any of them
FailedCalls(chunks) == SUBSET (1..Len(chunks))

\* a file as written by run r
FileOf(r, data) == [exists |-> TRUE, run |-> r, data |-> data]

\* no course has been indexed yet
NoSnapshot ==
    [dir |-> FALSE, index |-> NoFile, chunks |-> NoFile, metadata |-> NoFile]

InitIndex ==
    /\ uploads = Files
    /\ disk = [c \in {"c1"} |-> NoSnapshot]
    /\ runs = [r \in Runs |-> NoRun]
    /\ query = NoQuery
    /\ ValidateIdle
    /\ AnswerIdle
    /\ ChunkIdle
    /\ NotationIdle
    /\ ApiIdle

\* a call that raised ValueError on the file f it was given for course c
Raised(c, f) == [NoRun EXCEPT !.pc = "raised", !.course = c, !.file = f]

\* the calls of index_course in progress
ActiveRuns == {r \in DOMAIN runs : runs[r].pc \notin {"idle", "done", "raised"}}

\* index_course up to its index in memory: extraction, cleaning, chunking,
\* the embedding of every chunk; it raises for an unsupported format and for
\* a text that is empty once stripped.  The calls are numbered in the order
\* they are made, and at most two of them are in progress at a time.
Prepare(r) ==
    /\ runs[r].pc = "idle"
    /\ IF r = 1 THEN TRUE ELSE runs[r - 1].pc /= "idle"
    /\ Cardinality(ActiveRuns) <= 1
    /\ \E c \in DOMAIN disk, f \in uploads, tesseract \in BOOLEAN :
         IF f.ext \notin SupportedExt
         THEN runs' = [runs EXCEPT ![r] = Raised(c, f)]
         ELSE \E extracted \in {ExtractText(f, tesseract)} :
              IF strip(extracted.text) = <<>>
              THEN runs' = [runs EXCEPT ![r] = Raised(c, f)]
              ELSE \E chunks \in {create_chunks(clean_text(extracted.text),
                                                CHUNK_SIZE, CHUNK_OVERLAP)} :
                   \E failed \in FailedCalls(chunks) :
                     runs' = [runs EXCEPT ![r] =
                                [pc |-> "write_index", course |-> c,
                                 file |-> f, file_ext |-> f.ext,
                                 page_count |-> extracted.page_count,
                                 chunks |-> chunks, failed |-> failed,
                                 embeddings |-> EmbedChunks(chunks, failed)]]
    /\ UNCHANGED <<uploads, disk, query>>
    /\ UNCHANGED <<validate_vars, answer_vars, chunk_vars>>
    /\ UNCHANGED <<notation_vars, api_vars>>

\* course_dir.mkdir(parents=True, exist_ok=True) and faiss.write_index of
\* the index built from embeddings
WriteIndex(r) ==
    /\ runs[r].pc = "write_index"
    /\ disk' = [disk EXCEPT ![runs[r].course].dir = TRUE,
                            ![runs[r].course].index =
                                FileOf(r, runs[r].embeddings)]
    /\ runs' = [runs EXCEPT ![r].pc = "write_chunks"]
    /\ UNCHANGED <<uploads, query>>
    /\ UNCHANGED <<validate_vars, answer_vars, chunk_vars>>
    /\ UNCHANGED <<notation_vars, api_vars>>

\* a mutation: chunks.json has one path for all the courses
WriteChunks_SharedPath(r) ==
    /\ runs[r].pc = "write_chunks"
    /\ disk' = [c \in DOMAIN disk |->
                   [disk[c] EXCEPT !.chunks = FileOf(r, runs[r].chunks)]]
    /\ runs' = [runs EXCEPT ![r].pc = "write_metadata"]
    /\ UNCHANGED <<uploads, query>>
    /\ UNCHANGED <<validate_vars, answer_vars, chunk_vars>>
    /\ UNCHANGED <<notation_vars, api_vars>>

\* json.dump of chunks to chunks.json
WriteChunks(r) ==
    /\ runs[r].pc = "write_chunks"
    /\ disk' = [disk EXCEPT ![runs[r].course].chunks =
                   FileOf(r, runs[r].chunks)]
    /\ runs' = [runs EXCEPT ![r].pc = "write_metadata"]
    /\ UNCHANGED <<uploads, query>>
    /\ UNCHANGED <<validate_vars, answer_vars, chunk_vars>>
    /\ UNCHANGED <<notation_vars, api_vars>>

\* the dict metadata; the number of the run stands for its indexed_at
Metadata(r) ==
    [course_name  |-> runs[r].course,
     indexed_at   |-> r,
     chunks_count |-> Len(runs[r].chunks),
     page_count   |-> runs[r].page_count,
     file_type    |-> runs[r].file_ext]

\* json.dump of metadata to metadata.json, and the return
WriteMetadata(r) ==
    /\ runs[r].pc = "write_metadata"
    /\ disk' = [disk EXCEPT ![runs[r].course].metadata =
                   FileOf(r, Metadata(r))]
    /\ runs' = [runs EXCEPT ![r] =
                   [NoRun EXCEPT !.pc = "done", !.course = runs[r].course,
                                 !.file = runs[r].file]]
    /\ UNCHANGED <<uploads, query>>
    /\ UNCHANGED <<validate_vars, answer_vars, chunk_vars>>
    /\ UNCHANGED <<notation_vars, api_vars>>

(***************************************************************************)
(* search_and_answer_improved, up to the snapshot it has loaded            *)
(***************************************************************************)
\* `if not course_dir.exists(): raise FileNotFoundError`
CheckDir ==
    /\ query.pc = "idle"
    /\ \E c \in DOMAIN disk :
         query' = [query EXCEPT
                     !.course = c,
                     !.pc = IF disk[c].dir THEN "load_metadata" ELSE "raised"]
    /\ UNCHANGED <<uploads, disk, runs>>
    /\ UNCHANGED <<validate_vars, answer_vars, chunk_vars>>
    /\ UNCHANGED <<notation_vars, api_vars>>

\* metadata.json is read when it exists
LoadMetadata ==
    /\ query.pc = "load_metadata"
    /\ query' = [query EXCEPT !.metadata = disk[query.course].metadata,
                              !.pc = "load_index"]
    /\ UNCHANGED <<uploads, disk, runs>>
    /\ UNCHANGED <<validate_vars, answer_vars, chunk_vars>>
    /\ UNCHANGED <<notation_vars, api_vars>>

\* faiss.read_index, which raises when index.faiss does not exist
LoadIndex ==
    /\ query.pc = "load_index"
    /\ query' = [query EXCEPT
                   !.index = disk[query.course].index,
                   !.pc = IF disk[query.course].index.exists
                          THEN "load_chunks" ELSE "raised"]
    /\ UNCHANGED <<uploads, disk, runs>>
    /\ UNCHANGED <<validate_vars, answer_vars, chunk_vars>>
    /\ UNCHANGED <<notation_vars, api_vars>>

\* open and json.load of chunks.json, which raises when it does not exist
LoadChunks ==
    /\ query.pc = "load_chunks"
    /\ query' = [query EXCEPT
                   !.chunks = disk[query.course].chunks,
                   !.pc = IF disk[query.course].chunks.exists
                          THEN "loaded" ELSE "raised"]
    /\ UNCHANGED <<uploads, disk, runs>>
    /\ UNCHANGED <<validate_vars, answer_vars, chunk_vars>>
    /\ UNCHANGED <<notation_vars, api_vars>>

Next ==
    \/ \E r \in DOMAIN runs :
         \/ Prepare(r)
         \/ WriteIndex(r)
         \/ WriteChunks(r)
         \/ WriteMetadata(r)
    \/ CheckDir
    \/ LoadMetadata
    \/ LoadIndex
    \/ LoadChunks

Spec == InitIndex /\ [][Next]_vars

(***************************************************************************)
(* One call of index_course, on any file, for a course that has been       *)
(* indexed before or not.                                                  *)
(***************************************************************************)
Courses == {"c1", "c2"}

PdfUnreadable == UploadedFile(".pdf", <<<<"a", "b">>, <<"c", "d">>>>, FALSE, 0)
PdfFailing == UploadedFile(".pdf", <<<<"a", "b">>, <<"c", "d">>>>, TRUE, 2)
PdfScanned == UploadedFile(".pdf", <<<<" ">>>>, TRUE, 0)
PptxFile == UploadedFile(".pptx", <<<<"s", "1">>, <<"s", "2">>>>, TRUE, 0)
PptxUnreadable ==
    UploadedFile(".pptx", <<<<"s", "1">>, <<"s", "2">>>>, FALSE, 0)
PptxFailing == UploadedFile(".pptx", <<<<"s", "1">>, <<"s", "2">>>>, TRUE, 2)
DocxFile == UploadedFile(".docx", <<<<"p">>, <<" ">>, <<"q">>>>, TRUE, 0)
DocxUnreadable == UploadedFile(".docx", <<<<"p">>>>, FALSE, 0)
TxtUnreadable == UploadedFile(".txt", <<<<"x", "y", "z">>>>, FALSE, 0)
ImageFile == UploadedFile(".png", <<<<"i", "m", "g">>>>, TRUE, 0)
ImageUnreadable == UploadedFile(".png", <<<<"i", "m", "g">>>>, FALSE, 0)

AllFiles ==
    Files \cup {PdfUnreadable, PdfFailing, PdfScanned, PptxFile,
                PptxUnreadable, PptxFailing, DocxFile, DocxUnreadable,
                TxtUnreadable, ImageFile, ImageUnreadable}

\* what an earlier call of index_course (call 0) left for course c from the
\* file f, every embedding call having succeeded
SnapshotOf(c, f) ==
    LET extracted == ExtractText(f, FALSE)
        chunks == create_chunks(clean_text(extracted.text),
                                CHUNK_SIZE, CHUNK_OVERLAP)
    IN  [dir |-> TRUE,
         index |-> FileOf(0, EmbedChunks(chunks, {})),
         chunks |-> FileOf(0, chunks),
         metadata |-> FileOf(0, [course_name  |-> c,
                                 indexed_at   |-> 0,
                                 chunks_count |-> Len(chunks),
                                 page_count   |-> extracted.page_count,
                                 file_type    |-> f.ext])]

InitOneCall ==
    /\ uploads = AllFiles
    /\ disk \in {[c \in Courses |->
                      IF c \in indexed THEN SnapshotOf(c, TxtFile)
                      ELSE NoSnapshot] : indexed \in SUBSET Courses}
    /\ runs = <<NoRun>>
    /\ query = NoQuery
    /\ ValidateIdle
    /\ AnswerIdle
    /\ ChunkIdle
    /\ NotationIdle
    /\ ApiIdle

NextOneCall ==
    \E r \in DOMAIN runs :
        \/ Prepare(r)
        \/ WriteIndex(r)
        \/ WriteChunks(r)
        \/ WriteMetadata(r)

SpecIndex == InitOneCall /\ [][NextOneCall]_vars

(***************************************************************************)
(* Two calls of index_course and a query, side by side, on two courses of  *)
(* which any may have been indexed before.                                 *)
(***************************************************************************)
InitCourses ==
    /\ uploads = {PdfFile, TxtFile}
    /\ disk \in {[c \in Courses |->
                      IF c \in indexed THEN SnapshotOf(c, TxtFile)
                      ELSE NoSnapshot] : indexed \in SUBSET Courses}
    /\ runs = <<NoRun, NoRun>>
    /\ query = NoQuery
    /\ ValidateIdle
    /\ AnswerIdle
    /\ ChunkIdle
    /\ NotationIdle
    /\ ApiIdle

SpecCourses == InitCourses /\ [][Next]_vars

\* the calls of index_course for course c that take a step
Stepping(c) ==
    {r \in DOMAIN runs :
        /\ runs[r].course = c
        /\ runs[r].pc \in {"write_index", "write_chunks", "write_metadata"}
        /\ runs'[r] /= runs[r]}

\* C22: a step changes the directory or a file of a course only when it is
\* the step of a call of index_course for that course, and a step of the
\* query changes nothing on disk.
C22_OtherCoursesUnchanged ==
    [][/\ \A c \in DOMAIN disk : disk'[c] /= disk[c] => Stepping(c) /= {}
       /\ query' /= query => disk' = disk]_vars

\* C22: course c1 was indexed by a call made side by side with a query on
\* c2, a course indexed before, whose three files are as they were.
C22_Witness ==
    /\ \E r \in DOMAIN runs : runs[r].pc = "done" /\ runs[r].course = "c1"
    /\ disk["c1"].metadata.run /= 0
    /\ disk["c2"] = SnapshotOf("c2", TxtFile)
    /\ query.pc = "loaded"
    /\ query.course = "c2"

(***************************************************************************)
(* Failures during index_course.                                           *)
(***************************************************************************)
\* the courses for which call r has written a file
WrittenBy(r) ==
    {c \in DOMAIN disk :
        \E file \in {disk[c].index, disk[c].chunks, disk[c].metadata} :
            file.exists /\ file.run = r}

\* the format of f is not supported, or f cannot be opened, or reading it
\* raises, or it holds no text but whitespace
FailsToExtract(f) ==
    \/ f.ext \notin SupportedExt
    \/ ~f.readable
    \/ f.fail_at /= 0
    \/ \A n \in 1..Len(f.units) : strip(f.units[n]) = <<>>

\* C19: a call of index_course raises only on its file, never on a failed
\* embedding call; it holds one vector of dimension 3072 per chunk, the zero
\* vector at the position of every chunk whose embedding call failed and the
\* embedding of the chunk at every other position, and the index.faiss and
\* chunks.json one call has written have the same length.
C19_EmbeddingFailureTolerated ==
    /\ \A r \in DOMAIN runs :
         /\ runs[r].pc = "raised" =>
              \/ runs[r].file.ext \notin SupportedExt
              \/ \E tesseract \in BOOLEAN :
                   strip(ExtractText(runs[r].file, tesseract).text) = <<>>
         /\ runs[r].pc \in {"write_index", "write_chunks", "write_metadata"} =>
              /\ Len(runs[r].embeddings) = Len(runs[r].chunks)
              /\ \A i \in 1..Len(runs[r].chunks) :
                   /\ runs[r].embeddings[i].dim = EmbeddingDim
                   /\ runs[r].embeddings[i] =
                        IF i \in runs[r].failed THEN ZeroVector
                        ELSE EmbeddingOf(runs[r].chunks[i].content)
    /\ \A c \in DOMAIN disk :
         (/\ disk[c].index.exists /\ disk[c].chunks.exists
          /\ disk[c].index.run = disk[c].chunks.run)
         => Len(disk[c].index.data) = Len(disk[c].chunks.data)

\* C19: a call has returned after the embedding call of one of its two
\* chunks failed, and its index holds the zero vector next to an embedding
C19_Witness ==
    \E c \in DOMAIN disk :
        /\ runs[1].pc = "done"
        /\ runs[1].course = c
        /\ disk[c].metadata.run = 1
        /\ Len(disk[c].index.data) = 2
        /\ disk[c].index.data[1] = ZeroVector
        /\ disk[c].index.data[2] = EmbeddingOf(disk[c].chunks.data[2].content)

\* C20: a call of index_course whose file has an unsupported format, cannot
\* be read or extracted, or holds no text raises, and writes no file of the
\* snapshot of any course.
C20_FailedCallWritesNothing ==
    \A r \in DOMAIN runs :
        (runs[r].pc /= "idle" /\ FailsToExtract(runs[r].file))
        => /\ runs[r].pc = "raised"
           /\ WrittenBy(r) = {}

(***************************************************************************)
(* create_chunks applied to the texts made of a few pieces.                *)
(***************************************************************************)
PageMarker == <<"-", "-", "-", " ", "P", "a", "g", "e", " ">>

SlideMarker == <<"-", "-", "-", " ", "S", "l", "i", "d", "e", " ">>

ChunkPieces ==
    { PageMarker \o <<"1", " ", "-", "-", "-", "\n">>,
      PageMarker,
      SlideMarker \o <<"1", " ", "-", "-", "-", "\n">>,
      <<"a", "b", "c", "d", "e">>,
      <<"f", "g", " ", "h">>,
      <<"-", "-", "-">>,
      <<" ", "\n">> }

ChunkTexts == {Concat(ps) : ps \in SeqUpTo(ChunkPieces, MaxChunkPieces)}

\* chunk_size and overlap: small ones, and the defaults
ChunkParams ==
    {<<2, 0>>, <<2, 1>>, <<3, 1>>, <<CHUNK_SIZE, CHUNK_OVERLAP>>}

InitChunks ==
    /\ \E text \in ChunkTexts, params \in ChunkParams :
         chunking = [pc |-> "input", text |-> text,
                     chunk_size |-> params[1], overlap |-> params[2],
                     chunks |-> <<>>]
    /\ loop = NoLoop
    /\ ValidateIdle
    /\ AnswerIdle
    /\ IndexIdle
    /\ NotationIdle
    /\ ApiIdle

CreateChunks ==
    /\ chunking.pc = "input"
    /\ chunking' = [chunking EXCEPT
                      !.pc = "done",
                      !.chunks = create_chunks(chunking.text,
                                               chunking.chunk_size,
                                               chunking.overlap)]
    /\ UNCHANGED loop
    /\ UNCHANGED <<validate_vars, answer_vars, index_vars>>
    /\ UNCHANGED <<notation_vars, api_vars>>

NextChunks == CreateChunks

SpecChunks == InitChunks /\ [][NextChunks]_vars

\* the mode create_chunks takes for a text
ChunkMode(text) ==
    IF Len(SplitOn(text, PageMarker)) > 1 THEN "pages"
    ELSE IF Len(SplitOn(text, SlideMarker)) > 1 THEN "slides"
    ELSE "simple"

\* C15: in every mode the ids of the chunks create_chunks returns are 0, 1,
\* ..., N-1 in the order of the list.
C15_SequentialIds ==
    chunking.pc = "done" =>
        \A i \in 1..Len(chunking.chunks) : chunking.chunks[i].id = i - 1

\* C15: a text with page markers cut into three chunks or more, a page of
\* several chunks followed by another page
C15_Witness ==
    /\ chunking.pc = "done"
    /\ ChunkMode(chunking.text) = "pages"
    /\ Len(chunking.chunks) >= 3
    /\ chunking.chunks[1].page = chunking.chunks[2].page
    /\ chunking.chunks[Len(chunking.chunks)].page /= chunking.chunks[1].page
    /\ chunking.chunks[Len(chunking.chunks)].id = Len(chunking.chunks) - 1

\* C16: for a text with page markers, the content of every chunk is a piece
\* of the text between two page markers, the one of the page the chunk is
\* attributed to, and holds no page marker.
C16_ChunkWithinPage ==
    (chunking.pc = "done" /\ ChunkMode(chunking.text) = "pages") =>
        LET pages == SplitOn(chunking.text, PageMarker)
        IN  \A i \in 1..Len(chunking.chunks) :
              LET chunk == chunking.chunks[i]
              IN  /\ chunk.page \in 1..(Len(pages) - 1)
                  /\ Contains(pages[chunk.page + 1], chunk.content)
                  /\ ~Contains(chunk.content, PageMarker)

\* C16: two pages, the first longer than chunk_size and cut with an overlap
C16_Witness ==
    /\ chunking.pc = "done"
    /\ ChunkMode(chunking.text) = "pages"
    /\ chunking.overlap > 0
    /\ Len(SplitOn(chunking.text, PageMarker)) = 3
    /\ Len(chunking.chunks) >= 3
    /\ chunking.chunks[1].page = 1
    /\ chunking.chunks[2].page = 1
    /\ chunking.chunks[Len(chunking.chunks)].page = 2

(***************************************************************************)
(* simple_chunk, one iteration of its loop at a time.                      *)
(***************************************************************************)
Min(a, b) == IF a <= b THEN a ELSE b

\* text[a:b] of Python: a negative position counts from the end
Slice(text, a, b) ==
    LET n == Len(text)
        lo == IF a < 0 THEN Max(a + n, 0) ELSE Min(a, n)
        hi == IF b < 0 THEN Max(b + n, 0) ELSE Min(b, n)
    IN  IF lo < hi THEN SubSeq(text, lo + 1, hi) ELSE <<>>

\* a mutation: the next chunk starts where this one ends
NextStart_NoOverlap(start, chunk_size, overlap) == start + chunk_size

\* a mutation: the position does not move
NextStart_Stuck(start, chunk_size, overlap) == start

\* a mutation: one character is skipped between two chunks
NextStart_Gap(start, chunk_size, overlap) == start + chunk_size + 1

\* start += (chunk_size - overlap)
NextStart(start, chunk_size, overlap) == start + (chunk_size - overlap)

\* the first n characters of abcd...
Letters(n) == [i \in 1..n |-> AsciiLower[((i - 1) % 26) + 1]]

Text2000 == Letters(2000)

InitLoop ==
    /\ \E input \in
             {<<Letters(n), chunk_size, overlap>> :
                 n \in 0..MaxTextLen, chunk_size \in 1..MaxChunkSize,
                 overlap \in 0..MaxChunkSize}
             \cup {<<Text2000, CHUNK_SIZE, CHUNK_OVERLAP>>} :
         loop = [pc |-> "loop", text |-> input[1], chunk_size |-> input[2],
                 overlap |-> input[3], start |-> 0, chunks |-> <<>>]
    /\ chunking = NoChunking
    /\ ValidateIdle
    /\ AnswerIdle
    /\ IndexIdle
    /\ NotationIdle
    /\ ApiIdle

\* one iteration of `while start < text_length`
Iterate ==
    /\ loop.pc = "loop"
    /\ loop.start < Len(loop.text)
    /\ Len(loop.chunks) < MaxIterations
    /\ loop' = [loop EXCEPT
                  !.chunks = Append(loop.chunks,
                                    Slice(loop.text, loop.start,
                                          loop.start + loop.chunk_size)),
                  !.start = NextStart(loop.start, loop.chunk_size,
                                      loop.overlap)]
    /\ UNCHANGED chunking
    /\ UNCHANGED <<validate_vars, answer_vars, index_vars>>
    /\ UNCHANGED <<notation_vars, api_vars>>

\* the loop ends and chunks is returned
ReturnChunks ==
    /\ loop.pc = "loop"
    /\ ~(loop.start < Len(loop.text))
    /\ loop' = [loop EXCEPT !.pc = "done"]
    /\ UNCHANGED chunking
    /\ UNCHANGED <<validate_vars, answer_vars, index_vars>>
    /\ UNCHANGED <<notation_vars, api_vars>>

NextLoop == Iterate \/ ReturnChunks

SpecSimpleChunk == InitLoop /\ [][NextLoop]_vars /\ WF_vars(NextLoop)

\* C17: with chunk_size > overlap, chunk k (counted from 0) of simple_chunk
\* is the slice of the text from k * (chunk_size - overlap), of chunk_size
\* characters or, at the end of the text, of those that are left; there is
\* one chunk for every such start inside the text; and the text of 2000
\* characters with 800 and 200 gives the starts 0, 600, 1200, 1800.
C17_ChunkStarts ==
    (loop.pc = "done" /\ loop.chunk_size > loop.overlap) =>
        LET step == loop.chunk_size - loop.overlap
            n == Len(loop.text)
            starts == {k * step : k \in 0..n} \cap 0..(n - 1)
        IN  /\ Len(loop.chunks) = Cardinality(starts)
            /\ \A k \in 0..(Len(loop.chunks) - 1) :
                 /\ loop.chunks[k + 1] =
                      SubSeq(loop.text, k * step + 1,
                             Min(k * step + loop.chunk_size, n))
                 /\ Len(loop.chunks[k + 1]) <= loop.chunk_size
                 /\ k * step + loop.chunk_size <= n
                      => Len(loop.chunks[k + 1]) = loop.chunk_size
            /\ (loop.text = Text2000 /\ loop.chunk_size = 800
                /\ loop.overlap = 200)
               => /\ starts = {0, 600, 1200, 1800}
                  /\ Len(loop.chunks) = 4
                  /\ Len(loop.chunks[4]) = 200

\* C17: simple_chunk has returned the four chunks of the text of 2000
\* characters
C17_Witness ==
    /\ loop.pc = "done"
    /\ loop.text = Text2000
    /\ Len(loop.chunks) = 4
    /\ loop.chunks[2] = SubSeq(Text2000, 601, 1400)

\* C18: with overlap < chunk_size simple_chunk returns; with
\* overlap >= chunk_size and a text that is not empty it never returns.
C18_Termination ==
    /\ (loop.pc = "loop" /\ loop.overlap < loop.chunk_size)
         ~> (loop.pc = "done")
    /\ [](( /\ loop.pc /= "idle"
            /\ loop.overlap >= loop.chunk_size
            /\ loop.text /= <<>>) => loop.pc /= "done")

\* C18: the loop still runs after MaxIterations iterations without having
\* moved forward
C18_Witness ==
    /\ loop.pc = "loop"
    /\ loop.overlap >= loop.chunk_size
    /\ Len(loop.chunks) = MaxIterations
    /\ loop.start <= 0
    /\ loop.start < Len(loop.text)

\* C29: with chunk_size > overlap >= 0 every character of the text is in a
\* chunk, at its place; two consecutive chunks share overlap characters, the
\* last ones of the first and the first ones of the second, when the second
\* has at least overlap characters; and no chunk is empty.
C29_ChunksCoverText ==
    (loop.pc = "done" /\ loop.chunk_size > loop.overlap) =>
        LET chunks == loop.chunks
            StartOf(i) == (i - 1) * (loop.chunk_size - loop.overlap)
            EndOf(i) == StartOf(i) + Len(chunks[i])
        IN  /\ \A pos \in 1..Len(loop.text) :
                 \E i \in 1..Len(chunks) :
                     /\ StartOf(i) < pos
                     /\ pos <= EndOf(i)
                     /\ chunks[i][pos - StartOf(i)] = loop.text[pos]
            /\ \A i \in 1..(Len(chunks) - 1) :
                 Len(chunks[i + 1]) >= loop.overlap
                 => /\ EndOf(i) - StartOf(i + 1) = loop.overlap
                    /\ SubSeq(chunks[i], Len(chunks[i]) - loop.overlap + 1,
                              Len(chunks[i]))
                       = SubSeq(chunks[i + 1], 1, loop.overlap)
            /\ \A i \in 1..Len(chunks) : chunks[i] /= <<>>

\* C29: simple_chunk has returned at least three chunks that overlap, the
\* last of them shorter than the overlap
C29_Witness ==
    /\ loop.pc = "done"
    /\ loop.chunk_size > loop.overlap
    /\ loop.overlap >= 1
    /\ Len(loop.chunks) >= 3
    /\ Len(loop.chunks[2]) >= loop.overlap
    /\ Len(loop.chunks[Len(loop.chunks)]) < loop.overlap

(***************************************************************************)
(* search_and_answer_improved from the snapshot it has loaded: the search, *)
(* the retrieved chunks, the context, and the confidence and the sources   *)
(* of the result.  A float is written as a fraction num / den.             *)
(***************************************************************************)
\* the squared L2 distance of IndexFlatL2
Distance(q, v) ==
    (q.head[1] - v.head[1]) * (q.head[1] - v.head[1])
    + (q.head[2] - v.head[2]) * (q.head[2] - v.head[2])

\* what index.search fills in when the index holds fewer than k vectors: the
\* label -1 and the greatest float32 (3.4028235e38), written here as a
\* number above every distance of the model
PaddingLabel == 0 - 1
PaddingDistance == 1000

\* a mutation: the results of the search come in any order
SortedOrders_Any(q, vectors) == Permutations(1..Len(vectors))

\* the orders in which index.search may return all the vectors: by
\* non-decreasing distance, equal distances in any order
SortedOrders(q, vectors) ==
    {order \in Permutations(1..Len(vectors)) :
        \A i, j \in 1..Len(vectors) :
            i < j => Distance(q, vectors[order[i]])
                     <= Distance(q, vectors[order[j]])}

\* distances[0] and indices[0] of index.search(question_embedding, top_k)
index_search(vectors, q, top_k, order) ==
    [distances |-> [i \in 1..top_k |->
                      IF i <= Len(vectors)
                      THEN Distance(q, vectors[order[i]])
                      ELSE PaddingDistance],
     indices |-> [i \in 1..top_k |->
                    IF i <= Len(vectors) THEN order[i] - 1
                    ELSE PaddingLabel]]

\* chunks[idx] of a Python list: a negative idx counts from the end
ChunkAt(chunks, idx) ==
    IF idx < 0 THEN chunks[Len(chunks) + idx + 1] ELSE chunks[idx + 1]

\* chunk.get('page', chunk.get('slide', 'N/A')), as the text it is printed as
PageOf(chunk) ==
    IF chunk.page /= NoUnit THEN IntToText(chunk.page)
    ELSE IF chunk.slide /= NoUnit THEN IntToText(chunk.slide)
    ELSE <<"N", "/", "A">>

RelevantChunks(chunks, distances, indices) ==
    [i \in 1..Len(indices) |->
        [text |-> ChunkAt(chunks, indices[i]).content,
         page |-> PageOf(ChunkAt(chunks, indices[i])),
         distance |-> distances[i],
         rank |-> i]]

ContextSeparator == <<"\n", "\n", "-", "-", "-", "\n", "\n">>

SourceHeader == <<"[", "S", "o", "u", "r", "c", "e", " ", "-", " ", "P", "a", "g", "e",
      " ">>

\* "\n\n".join of the texts
ContextText(relevant_chunks) ==
    join(<<"\n", "\n">>,
         [i \in 1..Len(relevant_chunks) |-> relevant_chunks[i].text])

\* "\n\n---\n\n".join of f"[Source - Page {page}]\n{text}"
Context(relevant_chunks) ==
    join(ContextSeparator,
         [i \in 1..Len(relevant_chunks) |->
             SourceHeader \o relevant_chunks[i].page \o <<"]", "\n">>
             \o relevant_chunks[i].text])

RECURSIVE SumFrom(_, _)
SumFrom(numbers, i) ==
    IF i > Len(numbers) THEN 0 ELSE numbers[i] + SumFrom(numbers, i + 1)

\* a mutation: both terms weigh 0.6
Confidence_Weights(distances, score) ==
    LET n == Len(distances)
        total == SumFrom(distances, 1)
    IN  [num |-> 300 * n + 3 * score * (n + total), den |-> 500 * (n + total)]

\* confidence_final: with avg = total / n,
\* 0.6 * (1 / (1 + avg)) + 0.4 * score / 100
\*   = (300 * n + 2 * score * (n + total)) / (500 * (n + total))
Confidence(distances, score) ==
    LET n == Len(distances)
        total == SumFrom(distances, 1)
    IN  [num |-> 300 * n + 2 * score * (n + total), den |-> 500 * (n + total)]

\* 1.0 / (1.0 + c['distance'])
SourceConfidence(distance) == [num |-> 1, den |-> 1 + distance]

SourceTextLimit == 200
MaxSources == 3

\* c['text'][:200] + '...' if len(c['text']) > 200 else c['text']
SourceText(text) ==
    IF Len(text) > SourceTextLimit
    THEN SubSeq(text, 1, SourceTextLimit) \o <<".", ".", ".">>
    ELSE text

SourceOf(c) ==
    [text |-> SourceText(c.text), page |-> c.page,
     confidence |-> SourceConfidence(c.distance)]

\* a mutation: every retrieved chunk is a source
Sources_All(relevant_chunks) ==
    [i \in 1..Len(relevant_chunks) |-> SourceOf(relevant_chunks[i])]

\* the sources of the result, from relevant_chunks[:3]
Sources(relevant_chunks) ==
    [i \in 1..Min(MaxSources, Len(relevant_chunks)) |->
        SourceOf(relevant_chunks[i])]

\* a pdf of four pages, the second of 201 characters
LongPdf ==
    UploadedFile(".pdf",
                 <<<<"a", "b">>, Letters(SourceTextLimit + 1),
                   <<"c", "d">>, <<"x", "y", "z">>>>, TRUE, 0)

SearchFiles == {TxtFile, PdfFile, PptxFile, LongPdf}

\* the questions asked
SearchQuestions == {<<"a", "b">>, <<"x", "y", "z">>, QNone}

\* the completeness validations a query may end with
ValidationResults ==
    {validate_answer_completeness(q, a) :
        q \in PipelineQuestions, a \in Answers}

\* the query has loaded the snapshot of a course indexed from one of the
\* files and has validated its answer
InitSearch ==
    /\ \E f \in SearchFiles, top_k \in 1..MaxTopK :
         \E snapshot \in {SnapshotOf("c1", f)} :
           /\ disk = [c \in {"c1"} |-> snapshot]
           /\ query = [NoQuery EXCEPT
                         !.pc = "loaded", !.course = "c1",
                         !.metadata = snapshot.metadata,
                         !.index = snapshot.index,
                         !.chunks = snapshot.chunks,
                         !.top_k = top_k]
    /\ uploads = {}
    /\ runs = <<>>
    /\ validation \in ValidationResults
    /\ a_pc = "idle"
    /\ a_question = <<>>
    /\ answer_text = <<>>
    /\ result = NoAnswer
    /\ llm_calls = 0
    /\ llm_text = <<>>
    /\ score_log = <<>>
    /\ context_notations = NoNotationSet
    /\ notation_validation = NoNotationResult
    /\ ValidateIdle
    /\ ChunkIdle
    /\ NotationIdle
    /\ ApiIdle

\* the embedding of the question, which may raise, and index.search
Search ==
    /\ query.pc = "loaded"
    /\ \E question \in SearchQuestions, call_ok \in BOOLEAN :
         IF ~call_ok
         THEN query' = [query EXCEPT !.pc = "raised"]
         ELSE \E order \in SortedOrders(EmbeddingOf(question),
                                        query.index.data) :
              \E found \in {index_search(query.index.data,
                                         EmbeddingOf(question),
                                         query.top_k, order)} :
                query' = [query EXCEPT
                            !.pc = "searched",
                            !.question_embedding = EmbeddingOf(question),
                            !.distances = found.distances,
                            !.indices = found.indices]
    /\ UNCHANGED <<uploads, disk, runs>>
    /\ UNCHANGED <<validate_vars, answer_vars, chunk_vars>>
    /\ UNCHANGED <<notation_vars, api_vars>>

\* the loop that fills relevant_chunks
Retrieve ==
    /\ query.pc = "searched"
    /\ query' = [query EXCEPT
                   !.pc = "retrieved",
                   !.relevant_chunks =
                       RelevantChunks(query.chunks.data, query.distances,
                                      query.indices)]
    /\ UNCHANGED <<uploads, disk, runs>>
    /\ UNCHANGED <<validate_vars, answer_vars, chunk_vars>>
    /\ UNCHANGED <<notation_vars, api_vars>>

\* context_text and context
BuildContext ==
    /\ query.pc = "retrieved"
    /\ query' = [query EXCEPT
                   !.pc = "context",
                   !.context_text = ContextText(query.relevant_chunks),
                   !.context = Context(query.relevant_chunks)]
    /\ UNCHANGED <<uploads, disk, runs>>
    /\ UNCHANGED <<validate_vars, answer_vars, chunk_vars>>
    /\ UNCHANGED <<notation_vars, api_vars>>

\* once the answer is validated: confidence_final and the sources of result
BuildResult ==
    /\ query.pc = "context"
    /\ query' = [query EXCEPT
                   !.pc = "done",
                   !.confidence = Confidence(query.distances,
                                             validation.score),
                   !.sources = Sources(query.relevant_chunks)]
    /\ UNCHANGED <<uploads, disk, runs>>
    /\ UNCHANGED <<validate_vars, answer_vars, chunk_vars>>
    /\ UNCHANGED <<notation_vars, api_vars>>

NextSearch == Search \/ Retrieve \/ BuildContext \/ BuildResult

SpecSearch == InitSearch /\ [][NextSearch]_vars

\* the number of chunks of the snapshot the query has loaded
ChunkCount == Len(query.chunks.data)

\* the loop over the results of the search has run
Retrieved == query.pc \in {"retrieved", "context", "done"}

\* C11: once the result is built from distances that are all non-negative,
\* the confidence num / den lies between 0 and 1 inclusive
C11_ConfidenceInUnitInterval ==
    (/\ query.pc = "done"
     /\ \A i \in DOMAIN query.distances : query.distances[i] >= 0)
    => /\ query.confidence.den > 0
       /\ 0 <= query.confidence.num
       /\ query.confidence.num <= query.confidence.den

\* C11: a result of confidence exactly 1, from distances that are all 0 and
\* a completeness score of 100
C11_Witness ==
    /\ query.pc = "done"
    /\ query.confidence.num = query.confidence.den
    /\ validation.score = 100
    /\ \A i \in DOMAIN query.distances : query.distances[i] = 0

\* C12, as stated: the sources are the first min(3, n) retrieved chunks in
\* rank order and no source text is longer than 200 characters
C12_SourcesAtMost200 ==
    query.pc = "done"
    => /\ Len(query.sources) = Min(3, Len(query.relevant_chunks))
       /\ \A i \in DOMAIN query.sources :
            /\ query.sources[i].page = query.relevant_chunks[i].page
            /\ Len(query.sources[i].text) <= 200
            /\ \A j \in 1..Min(200, Len(query.sources[i].text)) :
                 query.sources[i].text[j] = query.relevant_chunks[i].text[j]

\* C12, amended: the sources are the first min(3, n) retrieved chunks in rank
\* order; the text of a source is the text of its chunk when that has at most
\* 200 characters, and otherwise its first 200 characters followed by "..."
C12_SourcesTruncatedWithEllipsis ==
    query.pc = "done"
    => /\ Len(query.sources) = Min(3, Len(query.relevant_chunks))
       /\ \A i \in DOMAIN query.sources :
            LET chunk_text == query.relevant_chunks[i].text
                source_text == query.sources[i].text
            IN  /\ query.sources[i].page = query.relevant_chunks[i].page
                /\ Len(chunk_text) <= 200 => source_text = chunk_text
                /\ Len(chunk_text) > 200
                   => /\ Len(source_text) = 203
                      /\ \A j \in 1..200 : source_text[j] = chunk_text[j]
                      /\ \A j \in 201..203 : source_text[j] = "."

\* C12: four chunks were retrieved, three are sources, and the text of one
\* source was cut
C12_Witness ==
    /\ query.pc = "done"
    /\ Len(query.relevant_chunks) = 4
    /\ Len(query.sources) = 3
    /\ \E i \in DOMAIN query.sources :
         /\ Len(query.relevant_chunks[i].text) = 201
         /\ Len(query.sources[i].text) = 203

\* C13: when top_k exceeds the number N of chunks, at most N chunks are
\* retrieved and the entries refer to distinct positions in 0..N-1
C13_NoPaddingRetrieved ==
    (Retrieved /\ query.top_k > ChunkCount)
    => /\ Len(query.relevant_chunks) <= ChunkCount
       /\ \A i \in DOMAIN query.indices :
            /\ query.indices[i] \in 0..(ChunkCount - 1)
            /\ \A j \in DOMAIN query.indices :
                 i /= j => query.indices[i] /= query.indices[j]

\* the number of characters before piece i of pieces joined by a separator
\* of sep characters
RECURSIVE LengthBefore(_, _, _)
LengthBefore(pieces, i, sep) ==
    IF i = 1 THEN 0
    ELSE LengthBefore(pieces, i - 1, sep) + Len(pieces[i - 1]) + sep

\* the text found in joined where piece i is expected
PieceAt(joined, pieces, i, sep) ==
    SubSeq(joined, LengthBefore(pieces, i, sep) + 1,
           LengthBefore(pieces, i, sep) + Len(pieces[i]))

\* C14: the retrieved chunks carry the ranks 1..n in list order, their
\* distances do not decrease with the rank, and the texts follow one another
\* in that order in context_text and, each under its header, in context
C14_RankOrder ==
    query.pc \in {"context", "done"}
    => LET chunks == query.relevant_chunks
           n == Len(chunks)
           texts == [i \in 1..n |-> chunks[i].text]
           blocks == [i \in 1..n |->
                        SourceHeader \o chunks[i].page \o <<"]", "\n">>
                        \o chunks[i].text]
       IN  /\ \A i \in 1..n : chunks[i].rank = i
           /\ \A i \in 1..n : chunks[i].distance = query.distances[i]
           /\ \A i, j \in 1..n :
                i < j => chunks[i].distance <= chunks[j].distance
           /\ \A i \in 1..n :
                /\ PieceAt(query.context_text, texts, i, 2) = texts[i]
                /\ PieceAt(query.context, blocks, i, 7) = blocks[i]
           /\ Len(query.context_text)
              = LengthBefore(texts, n, 2) + Len(texts[n])
           /\ Len(query.context) = LengthBefore(blocks, n, 7) + Len(blocks[n])

\* C14: three chunks of different texts were retrieved at three different
\* distances and the context is built
C14_Witness ==
    /\ query.pc = "context"
    /\ Len(query.relevant_chunks) = 3
    /\ \A i, j \in 1..3 :
         i < j => /\ query.relevant_chunks[i].distance
                     < query.relevant_chunks[j].distance
                  /\ query.relevant_chunks[i].text
                     /= query.relevant_chunks[j].text

(***************************************************************************)
(* extract_math_notations_from_context, called twice on one context, the   *)
(* two calls in two processes (two hash seeds).                            *)
(***************************************************************************)
\* the character class [A-Z]
AsciiUpperSet == {AsciiUpper[i] : i \in 1..26}

\* the characters \w matches, of those the texts are made of
WordChars ==
    AsciiUpperSet \cup AsciiLowerSet \cup {Digits[i] : i \in 1..10}
    \cup {"_", "U+03A9", "U+03C9", "U+03C0"}

\* the characters that end a formula: [^.;\n] matches none of them
FormulaStops == {".", ";", "\n"}

\* the last position of the run of characters, from i on, that are not in
\* stops
RECURSIVE RunEnd(_, _, _)
RunEnd(s, i, stops) ==
    IF i + 1 <= Len(s) /\ s[i + 1] \notin stops
    THEN RunEnd(s, i + 1, stops) ELSE i

\* where the match of [A-Z][a-z]?\s*=\s*[^.;\n]+ that starts at i ends, and
\* 0 when there is none: \s* takes all the whitespace it can and gives back
\* what [^.;\n]+ needs to match at least one character
FormulaEnd(s, i) ==
    LET a == IF i + 1 <= Len(s) /\ IsAsciiLower(s[i + 1])
             THEN i + 2 ELSE i + 1
        b == SkipWhitespace(s, a)
        c == SkipWhitespace(s, b + 1)
        starts == {p \in (b + 1)..c : p <= Len(s) /\ s[p] \notin FormulaStops}
    IN  IF s[i] \notin AsciiUpperSet \/ b > Len(s) THEN 0
        ELSE IF s[b] /= "=" \/ starts = {} THEN 0
        ELSE RunEnd(s, CHOOSE p \in starts : \A q \in starts : q <= p,
                    FormulaStops)

\* re.findall(formula_pattern, context), every match stripped
RECURSIVE FormulasFrom(_, _)
FormulasFrom(s, i) ==
    IF i > Len(s) THEN <<>>
    ELSE IF FormulaEnd(s, i) /= 0
         THEN <<strip(SubSeq(s, i, FormulaEnd(s, i)))>>
              \o FormulasFrom(s, FormulaEnd(s, i) + 1)
         ELSE FormulasFrom(s, i + 1)

\* re.findall(r'\b([A-Z])\b', context): the capital letters that have no
\* word character before or after them
IsolatedCapitals(s) ==
    SelectSeq([i \in 1..Len(s) |->
                  IF /\ s[i] \in AsciiUpperSet
                     /\ (i = 1 \/ s[i - 1] \notin WordChars)
                     /\ (i = Len(s) \/ s[i + 1] \notin WordChars)
                  THEN <<s[i]>> ELSE <<>>],
              LAMBDA m : m /= <<>>)

\* re.findall(r'\(([A-ZΩ])\)', context)
RECURSIVE UnitsFrom(_, _)
UnitsFrom(s, i) ==
    IF i + 2 > Len(s) THEN <<>>
    ELSE IF /\ s[i] = "("
            /\ s[i + 1] \in AsciiUpperSet \cup {"U+03A9"}
            /\ s[i + 2] = ")"
         THEN <<<<s[i + 1]>>>> \o UnitsFrom(s, i + 3)
         ELSE UnitsFrom(s, i + 1)

\* list(dict.fromkeys(matches)): every match once, at its first place
Dedupe(matches) ==
    SelectSeq([i \in 1..Len(matches) |->
                  IF \E j \in 1..(i - 1) : matches[j] = matches[i]
                  THEN <<"">> ELSE matches[i]],
              LAMBDA m : m /= <<"">>)

\* the elements of a sequence
Elements(matches) == {matches[i] : i \in 1..Len(matches)}

\* list(set(matches)): the elements in the order of the hash table, which
\* follows the hashes of the strings and so the seed of the process
SetOrders(matches) ==
    LET S == Elements(matches)
        n == Cardinality(S)
    IN  {order \in [1..n -> S] : \A i, j \in 1..n : i /= j => order[i] /= order[j]}

\* l[:n]
FirstN(l, n) == SubSeq(l, 1, Min(n, Len(l)))

FormulasCap == 10
VariablesCap == 20
UnitsCap == 10

\* the dicts the function may return for a context
extract_math_notations_from_context(context) ==
    IF context = <<>>
    THEN {[variables |-> <<>>, formulas |-> <<>>, units |-> <<>>]}
    ELSE {[variables |-> FirstN(variables, VariablesCap),
           formulas |-> FirstN(Dedupe(FormulasFrom(context, 1)), FormulasCap),
           units |-> FirstN(units, UnitsCap)] :
             variables \in SetOrders(IsolatedCapitals(context)),
             units \in SetOrders(UnitsFrom(context, 1))}

\* "U = R", ". ", "(V)", "(Ω)", "\n", "Ab = I;"
ContextPieces ==
    { <<"U", " ", "=", " ", "R">>,
      <<".", " ">>,
      <<"(", "V", ")">>,
      <<"(", "U+03A9", ")">>,
      <<"\n">>,
      <<"A", "b", " ", "=", " ", "I", ";">> }

Contexts == {Concat(ps) : ps \in SeqUpTo(ContextPieces, MaxContextPieces)}

InitNotations ==
    /\ notations \in {[NoNotations EXCEPT !.pc = "input", !.context = c] :
                         c \in Contexts}
    /\ latex = NoLatex
    /\ ValidateIdle
    /\ AnswerIdle
    /\ IndexIdle
    /\ ChunkIdle
    /\ ApiIdle

ExtractFirst ==
    /\ notations.pc = "input"
    /\ \E returned \in extract_math_notations_from_context(notations.context) :
         notations' = [notations EXCEPT !.pc = "first", !.first = returned]
    /\ UNCHANGED latex
    /\ UNCHANGED <<validate_vars, answer_vars, index_vars, chunk_vars>>
    /\ UNCHANGED api_vars

ExtractSecond ==
    /\ notations.pc = "first"
    /\ \E returned \in extract_math_notations_from_context(notations.context) :
         notations' = [notations EXCEPT !.pc = "second", !.second = returned]
    /\ UNCHANGED latex
    /\ UNCHANGED <<validate_vars, answer_vars, index_vars, chunk_vars>>
    /\ UNCHANGED api_vars

NextNotations == ExtractFirst \/ ExtractSecond

SpecNotations == InitNotations /\ [][NextNotations]_vars

\* C24: two calls on one context return the same dict, whose formulas,
\* variables and units are the matches in the order of their first
\* appearance, each once, cut at 10, 20 and 10
C24_DeterministicInsertionOrder ==
    notations.pc = "second"
    => /\ notations.second = notations.first
       /\ notations.first.formulas
          = FirstN(Dedupe(FormulasFrom(notations.context, 1)), 10)
       /\ notations.first.variables
          = FirstN(Dedupe(IsolatedCapitals(notations.context)), 20)
       /\ notations.first.units
          = FirstN(Dedupe(UnitsFrom(notations.context, 1)), 10)

(***************************************************************************)
(* The endpoints of main.py that run the pipeline, and the model the       *)
(* pipeline calls for them.                                                *)
(***************************************************************************)
Haiku == "claude-3-haiku-20240307"
Sonnet == "claude-sonnet-4-20250514"

PLAN_MODELS ==
    [plan \in {"free", "basic", "pro", "premium"} |->
        IF plan = "free" THEN Haiku ELSE Sonnet]

\* PLAN_MODELS.get(user_plan, PLAN_MODELS["free"])
get_claude_model(user_plan) ==
    IF user_plan \in DOMAIN PLAN_MODELS THEN PLAN_MODELS[user_plan]
    ELSE PLAN_MODELS["free"]

\* the default of the parameter user_plan of search_and_answer_improved
DefaultPlan == "free"
\* the default of its parameter top_k
DefaultTopK == 5

\* subscription_type of the user: the four plans, and two values that are
\* none of them
SubscriptionTypes == {"free", "basic", "pro", "premium", "trial", ""}

PaidPlans == {"basic", "pro", "premium"}

Endpoints == {"ask", "flashcards", "quiz", "summary"}

InitPlans ==
    /\ request \in {[NoRequest EXCEPT !.pc = "received", !.endpoint = e,
                                      !.subscription_type = plan,
                                      !.admin = admin] :
                       e \in Endpoints, plan \in SubscriptionTypes,
                       admin \in BOOLEAN}
    /\ db = NoCourse
    /\ ValidateIdle
    /\ AnswerIdle
    /\ IndexIdle
    /\ ChunkIdle
    /\ NotationIdle

\* user_plan of the generation endpoints
PlanOf(r) == IF r.admin THEN "pro" ELSE r.subscription_type

\* /api/ask calls the pipeline with user_id, course_id and question only
ask_question ==
    /\ request.pc = "received"
    /\ request.endpoint = "ask"
    /\ request' = [request EXCEPT !.pc = "pipeline",
                                  !.user_plan = DefaultPlan,
                                  !.top_k = DefaultTopK]
    /\ UNCHANGED db
    /\ UNCHANGED <<validate_vars, answer_vars, index_vars, chunk_vars>>
    /\ UNCHANGED notation_vars

\* /api/generate-flashcards
api_generate_flashcards ==
    /\ request.pc = "received"
    /\ request.endpoint = "flashcards"
    /\ request' = [request EXCEPT !.pc = "pipeline",
                                  !.user_plan = PlanOf(request),
                                  !.top_k = 30]
    /\ UNCHANGED db
    /\ UNCHANGED <<validate_vars, answer_vars, index_vars, chunk_vars>>
    /\ UNCHANGED notation_vars

\* /api/generate-quiz
api_generate_quiz ==
    /\ request.pc = "received"
    /\ request.endpoint = "quiz"
    /\ request' = [request EXCEPT !.pc = "pipeline",
                                  !.user_plan = PlanOf(request),
                                  !.top_k = 30]
    /\ UNCHANGED db
    /\ UNCHANGED <<validate_vars, answer_vars, index_vars, chunk_vars>>
    /\ UNCHANGED notation_vars

\* /api/generate-summary
api_generate_summary ==
    /\ request.pc = "received"
    /\ request.endpoint = "summary"
    /\ request' = [request EXCEPT !.pc = "pipeline",
                                  !.user_plan = PlanOf(request),
                                  !.top_k = 40]
    /\ UNCHANGED db
    /\ UNCHANGED <<validate_vars, answer_vars, index_vars, chunk_vars>>
    /\ UNCHANGED notation_vars

\* model = get_claude_model(user_plan), in search_and_answer_improved
SelectModel ==
    /\ request.pc = "pipeline"
    /\ request' = [request EXCEPT !.pc = "generate",
                                  !.model = get_claude_model(request.user_plan)]
    /\ UNCHANGED db
    /\ UNCHANGED <<validate_vars, answer_vars, index_vars, chunk_vars>>
    /\ UNCHANGED notation_vars

NextPlans ==
    \/ ask_question
    \/ api_generate_flashcards
    \/ api_generate_quiz
    \/ api_generate_summary
    \/ SelectModel

SpecPlans == InitPlans /\ [][NextPlans]_vars

\* C26: the model of a query is the stronger one for a user on a paid plan
\* and the cheaper one for a user on the free plan or on none of the plans,
\* whatever the endpoint
C26_ModelFollowsPlan ==
    request.pc = "generate"
    => request.model = IF request.subscription_type \in PaidPlans
                       THEN Sonnet ELSE Haiku

(***************************************************************************)
(* The validator applied to every question and answer.                       *)
(***************************************************************************)
InitValidate ==
    /\ v_pc = "input"
    /\ v_question \in Questions
    /\ v_answer \in Answers
    /\ v_result = NoResult
    /\ AnswerIdle
    /\ IndexIdle
    /\ ChunkIdle
    /\ NotationIdle
    /\ ApiIdle

Validate ==
    /\ v_pc = "input"
    /\ v_result' = validate_answer_completeness(v_question, v_answer)
    /\ v_pc' = "done"
    /\ UNCHANGED <<v_question, v_answer>>
    /\ UNCHANGED <<answer_vars, index_vars, chunk_vars>>
    /\ UNCHANGED <<notation_vars, api_vars>>

NextValidate == Validate

SpecValidate == InitValidate /\ [][NextValidate]_vars

(***************************************************************************)
(* The snapshot of a course: index.faiss, chunks.json and metadata.json.   *)
(***************************************************************************)
\* the vector at every position of vectors is the embedding of the content
\* of the chunk at that position, or the zero vector
VectorsOfChunks(vectors, chunks) ==
    /\ Len(vectors) = Len(chunks)
    /\ \A i \in 1..Len(chunks) :
         vectors[i] \in {EmbeddingOf(chunks[i].content), ZeroVector}

\* the three files were written by one call of index_course
OneRun(metadata, index, chunks) ==
    /\ metadata.exists /\ index.exists /\ chunks.exists
    /\ metadata.run = index.run
    /\ index.run = chunks.run

\* C1: once a call of index_course has returned for a course and no call is
\* in progress, the index and the chunk list on disk have the same length
\* and the vector at every position is the embedding of the chunk at that
\* position or the zero vector.
C1_IndexMatchesChunks ==
    \A c \in DOMAIN disk :
        (ActiveRuns = {} /\ disk[c].metadata.exists)
        => VectorsOfChunks(disk[c].index.data, disk[c].chunks.data)

\* C2: a query that has loaded the metadata of a complete snapshot ends with
\* an index, a chunk list and metadata written by the same call of
\* index_course, and does not fail on a missing file.
C2_QuerySeesOneSnapshot ==
    (query.pc \in {"loaded", "raised"} /\ query.metadata.exists)
    => /\ query.pc = "loaded"
       /\ OneRun(query.metadata, query.index, query.chunks)

\* C3: when the calls of index_course have all returned, the three files of
\* every indexed course were written by the same call.
C3_OneRunSnapshot ==
    \A c \in DOMAIN disk :
        (ActiveRuns = {} /\ disk[c].metadata.exists)
        => OneRun(disk[c].metadata, disk[c].index, disk[c].chunks)

\* the three files of course c are on disk
CompleteSnapshot(c) ==
    /\ disk[c].dir
    /\ disk[c].index.exists
    /\ disk[c].chunks.exists
    /\ disk[c].metadata.exists

\* C21: a query never gets past the loading of the snapshot, to its first
\* embedding call, for a course whose snapshot is not complete on disk; no
\* file is ever removed, so such a course had no complete snapshot at any
\* time of the query.
C21_IncompleteSnapshotFails ==
    query.pc = "loaded" => CompleteSnapshot(query.course)

(***************************************************************************)
(* What the claims about the validator read: the markers of a question by    *)
(* their positions, the tokens of an answer by their first characters.     *)
(***************************************************************************)
\* where a lettered marker starts in the lowercased text
MarkerPositions(s) ==
    {i \in 1..(Len(s) - 1) : IsAsciiLower(LowerChar(s[i])) /\ s[i + 1] = ")"}

\* the lowercased text holds the marker of this letter
HasMarker(s, letter) ==
    \E j \in 1..(Len(s) - 1) : LowerChar(s[j]) = letter /\ s[j + 1] = ")"

\* the marker occurrences of the question absent from the answer
AbsentMarkers(q, a) ==
    {i \in MarkerPositions(q) : ~HasMarker(a, LowerChar(q[i]))}

\* where a whitespace-separated token starts
TokenStarts(a) ==
    {i \in 1..Len(a) :
        a[i] \notin Whitespace /\ (i = 1 \/ a[i - 1] \in Whitespace)}

IssuesOfType(res, t) == SelectSeq(res.issues, LAMBDA x : x.type = t)

\* the score the penalties of the recorded issues give, 30 for each of k
\* missing sub-questions
ScoreFor(res, k) ==
    Max(0, 100 - 30 * k
             - (IF IssuesOfType(res, "incomplete_sentence") /= <<>>
                THEN 20 ELSE 0)
             - (IF IssuesOfType(res, "too_short") /= <<>> THEN 10 ELSE 0))

\* C7, as stated: for every number of markers in the question, one marker
\* included, each marker absent from the answer gives one missing-sub-question
\* issue and costs 30.
C7_EveryMarkerCount ==
    v_pc = "done" =>
        LET k == Cardinality(AbsentMarkers(v_question, v_answer))
        IN  /\ Len(IssuesOfType(v_result, "missing_subquestion")) = k
            /\ v_result.score = ScoreFor(v_result, k)

\* C7, amended: each marker occurrence absent from the answer gives one
\* missing-sub-question issue and costs 30 when the question holds at least
\* two marker occurrences; a question with one marker or none gives no such
\* issue and loses nothing for it.
C7_SeveralMarkers ==
    v_pc = "done" =>
        LET k == IF Cardinality(MarkerPositions(v_question)) >= 2
                 THEN Cardinality(AbsentMarkers(v_question, v_answer))
                 ELSE 0
        IN  /\ Len(IssuesOfType(v_result, "missing_subquestion")) = k
            /\ v_result.score = ScoreFor(v_result, k)

\* C7: a question with two markers, both absent from the answer, validated
C7_Witness ==
    /\ v_pc = "done"
    /\ Cardinality(MarkerPositions(v_question)) = 2
    /\ Cardinality(AbsentMarkers(v_question, v_answer)) = 2
    /\ Len(IssuesOfType(v_result, "missing_subquestion")) = 2

\* C8: a question with at least two markers and an answer lacking at least
\* one of them scores at most 70, and every absent marker is named by a
\* missing-sub-question issue.
C8_MissingMarkerFlagged ==
    (/\ v_pc = "done"
     /\ Cardinality(MarkerPositions(v_question)) >= 2
     /\ AbsentMarkers(v_question, v_answer) /= {})
    => /\ v_result.score <= 70
       /\ \A i \in AbsentMarkers(v_question, v_answer) :
            \E n \in 1..Len(v_result.issues) :
                /\ v_result.issues[n].type = "missing_subquestion"
                /\ Contains(v_result.issues[n].message,
                            <<LowerChar(v_question[i]), ")">>)

\* C8: "Donne a) et b)" answered with a) and without b), scored 70
C8_Witness ==
    /\ v_pc = "done"
    /\ v_question = QTwo
    /\ HasMarker(v_answer, "a")
    /\ ~HasMarker(v_answer, "b")
    /\ v_result.score = 70

\* C9: an answer of fewer than 20 tokens without the refusal phrase gets a
\* too-short issue and scores at most 90; one of fewer than 20 tokens with the
\* refusal phrase gets no too-short issue.
C9_TooShort ==
    (v_pc = "done" /\ Cardinality(TokenStarts(v_answer)) < 20)
    => IF Contains(v_answer, RefusalPhrase)
       THEN IssuesOfType(v_result, "too_short") = <<>>
       ELSE /\ IssuesOfType(v_result, "too_short") /= <<>>
            /\ v_result.score <= 90

\* C9: an answer of nineteen tokens without the refusal phrase, flagged
C9_Witness ==
    /\ v_pc = "done"
    /\ Cardinality(TokenStarts(v_answer)) = 19
    /\ ~Contains(v_answer, RefusalPhrase)
    /\ IssuesOfType(v_result, "too_short") /= <<>>

\* C10: the returned score is an integer of 0..100 and is_complete is true
\* exactly when it is at least 70, also when the penalties exceed 100.
C10_ScoreRange ==
    v_pc = "done" =>
        /\ v_result.score \in 0..100
        /\ v_result.is_complete <=> (v_result.score >= 70)

\* C10: four missing sub-questions, penalties of 120 and more, score 0
C10_Witness ==
    /\ v_pc = "done"
    /\ Len(IssuesOfType(v_result, "missing_subquestion")) = 4
    /\ v_result.score = 0
    /\ ~v_result.is_complete

\* C28: an answer that is the no-data sentence of the system prompt, French
\* or English, gets no too_short issue, and on a question without markers
\* its validation does not call for a regeneration.
C28_RefusalNotTooShort ==
    (v_pc = "done" /\ v_answer \in {NoDataFrench, NoDataEnglish})
    => /\ \A i \in 1..Len(v_result.issues) :
            v_result.issues[i].type /= "too_short"
       /\ findall_subquestions(lower(v_question)) = <<>>
          => ~NeedsRegeneration(v_result)

(***************************************************************************)
(* Claims about the generation, validation and regeneration of an answer.  *)
(***************************************************************************)
\* C4: the language model is called at most twice per query, and exactly
\* twice once the first answer has scored below 50, whatever the regenerated
\* answer scores.
C4_AtMostTwoCalls ==
    /\ llm_calls <= 2
    /\ (/\ a_pc \in {"return", "done", "raised"}
        /\ score_log /= <<>>
        /\ score_log[1] < 50)
       => llm_calls = 2

\* C4: a query returned after two answers that both scored below 50
C4_Witness ==
    /\ a_pc = "done"
    /\ Len(score_log) = 2
    /\ score_log[1] < 50
    /\ score_log[2] < 50
    /\ llm_calls = 2

\* C5: the regeneration call is issued if and only if the first,
\* post-processed answer scored strictly below 50; the regenerated answer is
\* validated again and the validation returned is the one of that answer.
C5_RegenerationIffLow ==
    /\ (llm_calls = 1 /\ a_pc /= "raised")
       => /\ score_log = <<validation.score>>
          /\ a_pc = "regenerate" <=> score_log[1] < 50
    /\ (llm_calls = 2 /\ a_pc /= "raised")
       => /\ score_log[1] < 50
          /\ answer_text = llm_text
          /\ validation = validate_answer_completeness(a_question, llm_text)
          /\ score_log[2] = validation.score
    /\ a_pc = "done"
       => /\ result.answer = answer_text
          /\ result.validation = validation

\* C5: a query returned with a regenerated answer that scores 70 or more
C5_Witness ==
    /\ a_pc = "done"
    /\ llm_calls = 2
    /\ score_log[1] < 50
    /\ result.answer = llm_text
    /\ result.validation.score = score_log[2]
    /\ score_log[2] >= 70

\* C6: the answer returned holds none of the nine LaTeX commands of the
\* table and no asterisk, whether it is the first or the regenerated one.
C6_ReturnedAnswerPostProcessed ==
    a_pc = "done" =>
        /\ \A i \in 1..Len(replacements) :
              ~Contains(result.answer, replacements[i][1])
        /\ ~Contains(result.answer, <<"*">>)

\* C25: a call of the language model that fails (a call that is counted and
\* leaves no score) makes the function raise; once it has raised it returns
\* no dict, makes no further call and stays raised.
C25_FailurePropagates ==
    /\ [][(llm_calls' /= llm_calls /\ score_log' = score_log)
          => a_pc' = "raised"]_vars
    /\ [](a_pc = "raised" => result = NoAnswer)
    /\ [][a_pc = "raised" => UNCHANGED <<a_pc, llm_calls, result>>]_vars

\* C25: the regeneration call failed after a first answer was validated
C25_Witness ==
    /\ a_pc = "raised"
    /\ llm_calls = 2
    /\ Len(score_log) = 1
    /\ result = NoAnswer

\* C27: the validation and the notation_validation returned are those of
\* the answer returned
C27_ValidationsOfReturnedAnswer ==
    a_pc = "done"
    => /\ result.validation
          = validate_answer_completeness(result.question, result.answer)
       /\ result.notation_validation
          = validate_notation_consistency(result.answer, context_notations)

(***************************************************************************)
(* upload_files and ask_question on the row of one course: the uploads     *)
(* follow one another, each makes at most one call of index_course, and a  *)
(* question may be asked at any time.                                      *)
(***************************************************************************)
\* the number of calls of index_course made so far
CallsMade == Cardinality({r \in DOMAIN runs : runs[r].pc /= "idle"})

InitUploads ==
    /\ uploads = Files
    /\ disk = [c \in {"c1"} |-> NoSnapshot]
    /\ runs = [r \in Runs |-> NoRun]
    /\ query = NoQuery
    /\ request = NoRequest
    /\ db = NoCourse
    /\ ValidateIdle
    /\ AnswerIdle
    /\ ChunkIdle
    /\ NotationIdle

\* upload_files, once the files are saved: indexing_status = "processing"
\* and the commit
StartIndexing ==
    /\ db.pc = "idle"
    /\ ActiveRuns = {}
    /\ db' = [db EXCEPT !.pc = "processing",
                        !.indexing_status = "processing",
                        !.calls = CallsMade]
    /\ UNCHANGED <<request, index_vars, notation_vars>>
    /\ UNCHANGED <<validate_vars, answer_vars, chunk_vars>>

\* `if not files_to_index`: every file uploaded was a recording with no
\* usable transcription; indexing_status = "failed", the commit and the
\* HTTPException 400, with no call of index_course
NothingToIndex ==
    /\ db.pc = "processing"
    /\ CallsMade = db.calls
    /\ db' = [db EXCEPT !.pc = "idle", !.indexing_status = "failed"]
    /\ UNCHANGED <<request, index_vars, notation_vars>>
    /\ UNCHANGED <<validate_vars, answer_vars, chunk_vars>>

\* the call index_course(..., file_path=first_file['file_path'], ...)
CallIndexCourse(r) ==
    /\ db.pc = "processing"
    /\ CallsMade = db.calls
    /\ Prepare(r)

\* index_course has returned its metadata: indexed = True,
\* indexing_status = "completed", and the commit
IndexingCompleted ==
    /\ db.pc = "processing"
    /\ CallsMade = db.calls + 1
    /\ runs[CallsMade].pc = "done"
    /\ db' = [db EXCEPT !.pc = "idle", !.indexed = TRUE,
                        !.indexing_status = "completed"]
    /\ UNCHANGED <<request, index_vars, notation_vars>>
    /\ UNCHANGED <<validate_vars, answer_vars, chunk_vars>>

\* a mutation: the handler of the exception marks the course as indexed
IndexingFailed_MarkIndexed ==
    /\ db.pc = "processing"
    /\ CallsMade = db.calls + 1
    /\ runs[CallsMade].pc = "raised"
    /\ db' = [db EXCEPT !.pc = "idle", !.indexed = TRUE,
                        !.indexing_status = "completed"]
    /\ UNCHANGED <<request, index_vars, notation_vars>>
    /\ UNCHANGED <<validate_vars, answer_vars, chunk_vars>>

\* `except Exception`: index_course raised; indexing_status = "failed", the
\* commit and the HTTPException 500; indexed keeps the value it had
IndexingFailed ==
    /\ db.pc = "processing"
    /\ CallsMade = db.calls + 1
    /\ runs[CallsMade].pc = "raised"
    /\ db' = [db EXCEPT !.pc = "idle", !.indexing_status = "failed"]
    /\ UNCHANGED <<request, index_vars, notation_vars>>
    /\ UNCHANGED <<validate_vars, answer_vars, chunk_vars>>

\* ask_question on a course that is not indexed: HTTPException 400,
\* "Course not indexed yet", and no call of the pipeline
AskNotIndexed ==
    /\ query.pc = "idle"
    /\ ~db.indexed
    /\ \E c \in DOMAIN disk :
         query' = [query EXCEPT !.course = c, !.pc = "not_indexed"]
    /\ UNCHANGED <<uploads, disk, runs>>
    /\ UNCHANGED <<validate_vars, answer_vars, chunk_vars>>
    /\ UNCHANGED <<notation_vars, api_vars>>

\* ask_question on an indexed course: the call of search_and_answer_improved
AskIndexed ==
    /\ db.indexed
    /\ CheckDir

NextUploads ==
    \/ StartIndexing
    \/ NothingToIndex
    \/ \E r \in DOMAIN runs :
         \/ CallIndexCourse(r)
         \/ WriteIndex(r)
         \/ WriteChunks(r)
         \/ WriteMetadata(r)
    \/ IndexingCompleted
    \/ IndexingFailed
    \/ AskNotIndexed
    \/ AskIndexed
    \/ LoadMetadata
    \/ LoadIndex
    \/ LoadChunks

SpecUploads == InitUploads /\ [][NextUploads]_vars

\* the pipeline has been called for the question
PipelineCalled == query.pc \notin {"idle", "not_indexed"}

\* C30: over the uploads of a course, one after the other: (1) the course
\* is indexed with the status "completed" only if the latest call of
\* index_course returned and the three files on disk are those it wrote;
\* (2) an upload that ends without a call of index_course that returned
\* leaves the status "failed"; (3) a course marked indexed has its three
\* files on disk; (4) a question reaches the pipeline only for a course
\* whose indexed flag is true.
C30_IndexedFlagFollowsUploads ==
    /\ []((db.indexed /\ db.indexing_status = "completed")
          => /\ CallsMade > 0
             /\ runs[CallsMade].pc = "done"
             /\ CompleteSnapshot("c1")
             /\ OneRun(disk["c1"].metadata, disk["c1"].index,
                       disk["c1"].chunks)
             /\ disk["c1"].metadata.run = CallsMade)
    /\ [][(db.pc = "processing" /\ db'.pc = "idle"
           /\ (CallsMade = db.calls \/ runs[CallsMade].pc /= "done"))
          => db'.indexing_status = "failed"]_vars
    /\ [](db.indexed => CompleteSnapshot("c1"))
    /\ [][(~PipelineCalled /\ PipelineCalled') => db.indexed]_vars

\* C30: a course indexed by a first upload, whose second upload failed in
\* index_course, and a question that has loaded its snapshot
C30_Witness ==
    /\ db.pc = "idle"
    /\ db.indexed
    /\ db.indexing_status = "failed"
    /\ CallsMade = 2
    /\ runs[1].pc = "done"
    /\ runs[2].pc = "raised"
    /\ CompleteSnapshot("c1")
    /\ query.pc = "loaded"

====
